---- MODULE Spec2Model ----
(***************************************************************************)
(* Document similarity analyzer: TF-IDF + cosine similarity.               *)
(*                                                                         *)
(* f32 values are modelled bit-exactly for the non-negative normal range   *)
(* the pipelines produce: a float is <<m, e>> with value m * 2^e, where    *)
(* m = 0 (the value 0.0, written <<0, 0>>) or 2^23 <= m < 2^24.  Every     *)
(* arithmetic operator rounds to nearest, ties to even, like the IEEE 754  *)
(* binary32 operations the Rust code executes.  Intermediate integers are  *)
(* kept below 2^31.                                                        *)
(***************************************************************************)
EXTENDS Integers, Sequences, FiniteSets, TLC

\* -------------------------------------------------------------- state
VARIABLES
    pc,                    \* the pipeline stage to run next
    documents,             \* analyze_sentence_similarity: documents
    threshold,             \* analyze_sentence_similarity: threshold
    all_sentences,
    processed_sentences,
    sentence_tfs,
    global_idf,
    sentence_vectors,
    matches,
    global_similarities,
    docs,                  \* analyze_documents: documents
    labels,
    normalized,
    tokenized,
    tfs,
    idf,
    vocabulary,
    vectors,
    matrix,
    previous,              \* what the previous call with these arguments returned
    request,               \* the argument of the handler or function called
    multipart,             \* the fields not read yet
    files,
    threshold_value,
    total_size,
    field,                 \* the field whose header was read and whose body was not
    handler,               \* "idle", "running" or "returned"
    response,              \* what the handler or function returned
    tasks,                 \* the running parallel stage: each item's task
    slots,                 \* the running parallel stage: each item's result
    idf_calls              \* calls of compute_idf made by the analysis so far

svars == <<documents, threshold, all_sentences, processed_sentences, sentence_tfs,
           global_idf, sentence_vectors, matches, global_similarities>>
dvars == <<docs, labels, normalized, tokenized, tfs, idf, vocabulary, vectors, matrix>>
uvars == <<request, multipart, files, threshold_value, total_size, field, handler,
           response>>
pvars == <<tasks, slots, idf_calls>>
ovars == <<previous, uvars, pvars>>
vars == <<pc, svars, dvars, ovars>>

\* ------------------------------------------------------------------ f32
Two12 == 2^12
Two22 == 2^22
Two23 == 2^23
Two24 == 2^24

F32Zero == <<0, 0>>
F32One == <<Two23, -23>>

\* the special results of a division by 0.0: 0.0 / 0.0, x / 0.0 and -x / 0.0
F32NaN == <<-1, 0>>
F32Inf == <<-2, 0>>
F32NegInf == <<-3, 0>>

\* sign of x - y
Cmp(x, y) == IF x < y THEN -1 ELSE IF x = y THEN 0 ELSE 1

\* q: truncated 24-bit significand, c: sign of (discarded part - half ulp)
F32Round(q, c, e) ==
    LET up == (c = 1) \/ (c = 0 /\ q % 2 = 1)
        m == IF up THEN q + 1 ELSE q
    IN IF m = Two24 THEN <<Two23, e + 1>> ELSE <<m, e>>

RECURSIVE F32Norm(_, _)
F32Norm(m, e) == IF m >= Two23 THEN <<m, e>> ELSE F32Norm(m * 2, e - 1)

\* `n as f32` for 0 <= n < 2^24 (exact)
F32FromInt(n) == IF n = 0 THEN F32Zero ELSE F32Norm(n, 0)

\* a negative float is <<-m, e>> with 2^23 <= m < 2^24; 0.0 and -0.0, which
\* compare equal, are the one value <<0, 0>>
F32IsNegative(a) == a[1] <= -Two23

F32Abs(a) == IF F32IsNegative(a) THEN <<-a[1], a[2]>> ELSE a

\* a * b: the product of the magnitudes, negative when the signs differ
F32Mul(a, b) ==
    IF a[1] = 0 \/ b[1] = 0 THEN F32Zero
    ELSE LET x == F32Abs(a)
             y == F32Abs(b)
             h1 == x[1] \div Two12
             l1 == x[1] % Two12
             h2 == y[1] \div Two12
             l2 == y[1] % Two12
             mid == h1 * l2 + l1 * h2
             lowsum == (mid % Two12) * Two12 + l1 * l2
             plo == lowsum % Two24
             phi == h1 * h2 + (mid \div Two12) + (lowsum \div Two24)
             product == IF phi >= Two23
                        THEN F32Round(phi, Cmp(plo, Two23), x[2] + y[2] + 24)
                        ELSE F32Round(phi * 2 + (plo \div Two23),
                                      Cmp(plo % Two23, Two22), x[2] + y[2] + 23)
         IN IF F32IsNegative(a) # F32IsNegative(b)
            THEN <<-product[1], product[2]>>
            ELSE product

\* a + b: the magnitudes are added when the signs agree and subtracted (the
\* smaller from the larger, with three guard bits and a sticky bit) when they
\* differ; the sign is that of the operand of larger magnitude, x + (-x) = 0.0
F32Add(a, b) ==
    LET \* hi + lo for magnitudes hi >= lo
        Sum(hi, lo) ==
            LET p == 2^(hi[2] - lo[2])
                q == lo[1] \div p
                r == lo[1] % p
                s == hi[1] + q
            IN IF s < Two24
               THEN F32Round(s, Cmp(2 * r, p), hi[2])
               ELSE F32Round(s \div 2, Cmp((s % 2) * p + r, p), hi[2] + 1)
        \* t * 2^e, less a fraction of 2^e when sticky, rounded to 24 bits
        Rounded(t, sticky, e, k) ==
            F32Round(t \div (2^k),
                     IF t % (2^k) > 2^(k - 1) THEN 1
                     ELSE IF t % (2^k) < 2^(k - 1) THEN -1
                     ELSE IF sticky THEN 1 ELSE 0,
                     e + k)
        Normalized(t, sticky, e) ==
            IF t = 0 THEN F32Zero
            ELSE IF t < Two24 THEN F32Norm(t, e)
            ELSE Rounded(t, sticky, e,
                         IF t >= 4 * Two24 THEN 3 ELSE IF t >= 2 * Two24 THEN 2 ELSE 1)
        \* hi - lo for magnitudes hi >= lo
        Difference(hi, lo) ==
            Normalized(hi[1] * 8 - ((lo[1] * 8) \div (2^(hi[2] - lo[2])))
                           - (IF ((lo[1] * 8) % (2^(hi[2] - lo[2]))) # 0 THEN 1 ELSE 0),
                       ((lo[1] * 8) % (2^(hi[2] - lo[2]))) # 0,
                       hi[2] - 3)
        Magnitude(hi, lo, same) ==
            IF hi[2] - lo[2] >= 26 THEN hi
            ELSE IF same THEN Sum(hi, lo)
            ELSE Difference(hi, lo)
        Signed(negative, magnitude) ==
            IF negative /\ magnitude[1] # 0 THEN <<-magnitude[1], magnitude[2]>>
            ELSE magnitude
        \* x and y are the magnitudes of a and b
        Add(x, y) ==
            IF x[2] > y[2] \/ (x[2] = y[2] /\ x[1] >= y[1])
            THEN Signed(F32IsNegative(a), Magnitude(x, y, F32IsNegative(a) = F32IsNegative(b)))
            ELSE Signed(F32IsNegative(b), Magnitude(y, x, F32IsNegative(a) = F32IsNegative(b)))
    IN IF a[1] = 0 THEN b
       ELSE IF b[1] = 0 THEN a
       ELSE Add(F32Abs(a), F32Abs(b))

\* one chunk of the long division of (r * 2^s) by m; qr = <<quotient, remainder>>
F32DivStep(qr, s, m) ==
    <<qr[1] * (2^s) + ((qr[2] * (2^s)) \div m), (qr[2] * (2^s)) % m>>

\* a / b: the quotient of the magnitudes, negative when the signs differ;
\* 0.0 / 0.0 is NaN and x / 0.0 is the infinity of the sign of x
F32Div(a, b) ==
    IF b[1] = 0
    THEN (IF a[1] = 0 THEN F32NaN ELSE IF F32IsNegative(a) THEN F32NegInf ELSE F32Inf)
    ELSE IF a[1] = 0 THEN F32Zero
    ELSE LET x == F32Abs(a)
             y == F32Abs(b)
             k == IF x[1] >= y[1] THEN 24 ELSE 25
             s0 == <<x[1] \div y[1], x[1] % y[1]>>
             s1 == F32DivStep(s0, 7, y[1])
             s2 == F32DivStep(s1, 7, y[1])
             s3 == F32DivStep(s2, 7, y[1])
             s4 == F32DivStep(s3, k - 21, y[1])
             c == IF s4[1] % 2 = 0 THEN -1 ELSE IF s4[2] = 0 THEN 0 ELSE 1
             quotient == F32Round(s4[1] \div 2, c, x[2] - y[2] - k + 1)
         IN IF F32IsNegative(a) # F32IsNegative(b)
            THEN <<-quotient[1], quotient[2]>>
            ELSE quotient

\* digit-by-digit integer square root of M * 4^zeros, M < 4^13
RECURSIVE F32SqrtIter(_, _, _, _, _)
F32SqrtIter(left, zeros, M, root, rem) ==
    IF left = 0 THEN <<root, rem>>
    ELSE LET pair == IF left > zeros THEN (M \div (4^(left - zeros - 1))) % 4 ELSE 0
             r == rem * 4 + pair
             t == root * 4 + 1
         IN IF r >= t THEN F32SqrtIter(left - 1, zeros, M, root * 2 + 1, r - t)
            ELSE F32SqrtIter(left - 1, zeros, M, root * 2, r)

F32Sqrt(a) ==
    IF a[1] = 0 THEN F32Zero
    ELSE IF F32IsNegative(a) THEN F32NaN
    ELSE LET odd == a[2] % 2 = 1
             M == IF odd THEN a[1] * 2 ELSE a[1]
             E == IF odd THEN a[2] - 1 ELSE a[2]
             zeros == IF odd THEN 12 ELSE 13
             rr == F32SqrtIter(13 + zeros, zeros, M, 0, 0)
             c == IF rr[1] % 2 = 0 THEN -1 ELSE IF rr[2] = 0 THEN 0 ELSE 1
         IN F32Round(rr[1] \div 2, c, (E \div 2) - zeros + 1)

\* a < b, a <= b (false when either side is NaN); MagLt is x < y on
\* non-negative finite floats
F32Lt(a, b) ==
    LET MagLt(x, y) ==
            IF y[1] = 0 THEN FALSE
            ELSE IF x[1] = 0 THEN TRUE
            ELSE x[2] < y[2] \/ (x[2] = y[2] /\ x[1] < y[1])
    IN IF a = F32NaN \/ b = F32NaN \/ a = F32Inf \/ b = F32NegInf THEN FALSE
       ELSE IF b = F32Inf \/ a = F32NegInf THEN TRUE
       ELSE IF F32IsNegative(a) /\ F32IsNegative(b) THEN MagLt(F32Abs(b), F32Abs(a))
       ELSE IF F32IsNegative(a) THEN TRUE
       ELSE IF F32IsNegative(b) THEN FALSE
       ELSE MagLt(a, b)

F32Le(a, b) == a # F32NaN /\ (a = b \/ F32Lt(a, b))

\* f32::ln on the arguments (N + 1) / (df + 1) that compute_idf forms for
\* corpora of at most 8 members (correctly rounded binary32 logarithms)
F32Ln(x) ==
    CASE x = <<8388608, -23>> -> <<0, 0>>                \* ln(1)
      [] x = <<9437184, -23>> -> <<15808571, -27>>       \* ln(9/8) = 0.117783032
      [] x = <<9586981, -23>> -> <<8961143, -26>>        \* ln(8/7) = 0.133531436
      [] x = <<9786709, -23>> -> <<10344875, -26>>       \* ln(7/6) = 0.15415065
      [] x = <<10066330, -23>> -> <<12235395, -26>>      \* ln(6/5) = 0.182321593
      [] x = <<10485760, -23>> -> <<14974910, -26>>      \* ln(5/4) = 0.223143548
      [] x = <<10785353, -23>> -> <<8432712, -25>>       \* ln(9/7) = 0.251314402
      [] x = <<11184811, -23>> -> <<9653010, -25>>       \* ln(4/3) = 0.287682116
      [] x = <<11744051, -23>> -> <<11290134, -25>>      \* ln(7/5) = 0.336472213
      [] x = <<12582912, -23>> -> <<13605151, -25>>      \* ln(3/2) = 0.405465096
      [] x = <<13421773, -23>> -> <<15770705, -25>>      \* ln(8/5) = 0.470003635
      [] x = <<13981013, -23>> -> <<8570231, -24>>       \* ln(5/3) = 0.510825574
      [] x = <<14680064, -23>> -> <<9388795, -24>>       \* ln(7/4) = 0.559615791
      [] x = <<15099494, -23>> -> <<9861423, -24>>       \* ln(9/5) = 0.587786615
      [] x = <<8388608, -22>> -> <<11629080, -24>>       \* ln(2) = 0.693147182
      [] x = <<9437184, -22>> -> <<13605151, -24>>       \* ln(9/4) = 0.810930192
      [] x = <<9786709, -22>> -> <<14215299, -24>>       \* ln(7/3) = 0.847297847
      [] x = <<10485760, -22>> -> <<15372808, -24>>      \* ln(5/2) = 0.91629076
      [] x = <<11184811, -22>> -> <<16455585, -24>>      \* ln(8/3) = 0.980829298
      [] x = <<12582912, -22>> -> <<9215828, -23>>       \* ln(3) = 1.09861231
      [] x = <<14680064, -22>> -> <<10508937, -23>>      \* ln(7/2) = 1.25276291
      [] x = <<8388608, -21>> -> <<11629080, -23>>       \* ln(4) = 1.38629436
      [] x = <<9437184, -21>> -> <<12617116, -23>>       \* ln(9/2) = 1.50407743

\* iter().sum::<f32>(): left fold from 0.0
RECURSIVE F32Sum(_)
F32Sum(xs) ==
    IF xs = <<>> THEN F32Zero
    ELSE F32Add(F32Sum(SubSeq(xs, 1, Len(xs) - 1)), xs[Len(xs)])

\* ----------------------------------------------------------------- text
\* A text is a sequence of characters (one-character strings); a token is a
\* non-empty text without whitespace.
AsciiUpper == <<"A", "B", "C", "D", "E", "F", "G", "H", "I", "J", "K", "L", "M",
                "N", "O", "P", "Q", "R", "S", "T", "U", "V", "W", "X", "Y", "Z">>
AsciiLower == <<"a", "b", "c", "d", "e", "f", "g", "h", "i", "j", "k", "l", "m",
                "n", "o", "p", "q", "r", "s", "t", "u", "v", "w", "x", "y", "z">>
AsciiDigit == <<"0", "1", "2", "3", "4", "5", "6", "7", "8", "9">>

\* char::is_ascii_punctuation ("U+0060" names the grave accent)
is_ascii_punctuation(c) ==
    c \in {"!", "\"", "#", "$", "%", "&", "'", "(", ")", "*", "+", ",", "-", ".",
           "/", ":", ";", "<", "=", ">", "?", "@", "[", "\\", "]", "^", "_",
           "U+0060", "{", "|", "}", "~"}

\* mutant: char::to_lowercase, which also folds the capital e-acute "U+00C9"
to_lowercase(c) ==
    IF \E i \in 1..26 : AsciiUpper[i] = c
    THEN AsciiLower[CHOOSE i \in 1..26 : AsciiUpper[i] = c]
    ELSE IF c = "U+00C9" THEN "U+00E9"
    ELSE c

\* char::to_ascii_lowercase
to_ascii_lowercase(c) ==
    IF \E i \in 1..26 : AsciiUpper[i] = c
    THEN AsciiLower[CHOOSE i \in 1..26 : AsciiUpper[i] = c]
    ELSE c

\* char::is_whitespace on the characters the model uses ("U+00A0" is the one
\* character no-break space, which has the Unicode White_Space property)
is_whitespace(c) == c \in {" ", "\t", "\n", "\r", "U+00A0"}

\* str::split_whitespace: the maximal runs of non-whitespace characters
RECURSIVE SplitFrom(_, _, _)
SplitFrom(s, i, cur) ==
    IF i > Len(s) THEN (IF cur = <<>> THEN <<>> ELSE <<cur>>)
    ELSE IF is_whitespace(s[i])
         THEN (IF cur = <<>> THEN <<>> ELSE <<cur>>) \o SplitFrom(s, i + 1, <<>>)
         ELSE SplitFrom(s, i + 1, Append(cur, s[i]))

split_whitespace(s) == SplitFrom(s, 1, <<>>)

\* [&str]::join(" ")
RECURSIVE join(_, _)
join(words, sep) ==
    IF words = <<>> THEN <<>>
    ELSE IF Len(words) = 1 THEN words[1]
    ELSE words[1] \o sep \o join(Tail(words), sep)

\* mutant: the mapped characters are returned as they are, runs not collapsed
normalize_text_uncollapsed(text) ==
    [i \in 1..Len(text) |->
        IF is_ascii_punctuation(text[i]) THEN " "
        ELSE to_ascii_lowercase(text[i])]

normalize_text(text) ==
    LET mapped == [i \in 1..Len(text) |->
                      IF is_ascii_punctuation(text[i]) THEN " "
                      ELSE to_ascii_lowercase(text[i])]
    IN join(split_whitespace(mapped), <<" ">>)

tokenize(text) == SelectSeq(split_whitespace(text), LAMBDA s : s # <<>>)

\* ------------------------------------------------------------ TF / IDF
\* A HashMap<String, f32> is a function from its key set to f32 values.
EmptyMap == [t \in {} |-> F32Zero]

Count(tokens, t) == Cardinality({i \in 1..Len(tokens) : tokens[i] = t})

\* mutant: the counts are divided by the number of distinct tokens
compute_tf_over_distinct(tokens) ==
    IF tokens = <<>> THEN EmptyMap
    ELSE LET total == F32FromInt(Cardinality({tokens[i] : i \in 1..Len(tokens)}))
         IN [t \in {tokens[i] : i \in 1..Len(tokens)} |->
                F32Div(F32FromInt(Count(tokens, t)), total)]

compute_tf(tokens) ==
    IF tokens = <<>> THEN EmptyMap
    ELSE LET total == F32FromInt(Len(tokens))
         IN [t \in {tokens[i] : i \in 1..Len(tokens)} |->
                F32Div(F32FromInt(Count(tokens, t)), total)]

\* mutant: the unsmoothed ln(N / df), which is 0 for a term of every member
compute_idf_unsmoothed(tfs_) ==
    IF tfs_ = <<>> THEN EmptyMap
    ELSE LET n == F32FromInt(Len(tfs_))
             terms == UNION {DOMAIN tfs_[i] : i \in 1..Len(tfs_)}
             document_frequency(term) ==
                 Cardinality({i \in 1..Len(tfs_) : term \in DOMAIN tfs_[i]})
         IN [term \in terms |->
                F32Ln(F32Div(n, F32FromInt(document_frequency(term))))]

\* mutant: a member counts for a term only when the term's frequency in it
\* is above 0.5
compute_idf_by_magnitude(tfs_) ==
    IF tfs_ = <<>> THEN EmptyMap
    ELSE LET n == F32FromInt(Len(tfs_))
             terms == UNION {DOMAIN tfs_[i] : i \in 1..Len(tfs_)}
             document_frequency(term) ==
                 Cardinality({i \in 1..Len(tfs_) :
                                 /\ term \in DOMAIN tfs_[i]
                                 /\ F32Lt(<<Two23, -24>>, tfs_[i][term])})
         IN [term \in terms |->
                F32Add(F32Ln(F32Div(F32Add(n, F32One),
                                    F32Add(F32FromInt(document_frequency(term)), F32One))),
                       F32One)]

compute_idf(tfs_) ==
    IF tfs_ = <<>> THEN EmptyMap
    ELSE LET n == F32FromInt(Len(tfs_))
             terms == UNION {DOMAIN tfs_[i] : i \in 1..Len(tfs_)}
             document_frequency(term) ==
                 Cardinality({i \in 1..Len(tfs_) : term \in DOMAIN tfs_[i]})
         IN [term \in terms |->
                F32Add(F32Ln(F32Div(F32Add(n, F32One),
                                    F32Add(F32FromInt(document_frequency(term)), F32One))),
                       F32One)]

\* ----------------------------------------------------- dense vectors
MapGet(map, term) == IF term \in DOMAIN map THEN map[term] ELSE F32Zero

\* `c as u32`: the code point of a character of the model's texts (the
\* printable ASCII characters are U+0020..U+007E in order; "U+0060" names the
\* grave accent)
CharCode(c) ==
    LET printable ==
            <<" ", "!", "\"", "#", "$", "%", "&", "'", "(", ")", "*", "+", ",", "-",
              ".", "/">> \o AsciiDigit \o <<":", ";", "<", "=", ">", "?", "@">>
            \o AsciiUpper \o <<"[", "\\", "]", "^", "_", "U+0060">>
            \o AsciiLower \o <<"{", "|", "}", "~">>
    IN CASE c = "\t" -> 9
         [] c = "\n" -> 10
         [] c = "\r" -> 13
         [] c = "U+00A0" -> 160
         [] c = "U+00C9" -> 201
         [] c = "U+00E9" -> 233
         [] OTHER -> 31 + (CHOOSE i \in 1..Len(printable) : printable[i] = c)

\* String's Ord: lexicographic by UTF-8 byte, which is the order of the code
\* points
RECURSIVE StrLt(_, _)
StrLt(s, t) ==
    IF t = <<>> THEN FALSE
    ELSE IF s = <<>> THEN TRUE
    ELSE IF CharCode(s[1]) # CharCode(t[1]) THEN CharCode(s[1]) < CharCode(t[1])
    ELSE StrLt(Tail(s), Tail(t))

\* idf.keys().cloned().collect() followed by vocabulary.sort()
RECURSIVE sorted_vocabulary(_)
sorted_vocabulary(terms) ==
    IF terms = {} THEN <<>>
    ELSE LET least == CHOOSE t \in terms : \A u \in terms \ {t} : StrLt(t, u)
         IN <<least>> \o sorted_vocabulary(terms \ {least})

\* mutant: a term the document lacks gets term frequency 1.0
vectorize_absent_as_one(tf, idf_, vocabulary_) ==
    [i \in 1..Len(vocabulary_) |->
        LET tf_value == IF vocabulary_[i] \in DOMAIN tf THEN tf[vocabulary_[i]] ELSE F32One
            idf_value == MapGet(idf_, vocabulary_[i])
        IN F32Mul(tf_value, idf_value)]

vectorize(tf, idf_, vocabulary_) ==
    [i \in 1..Len(vocabulary_) |->
        LET tf_value == MapGet(tf, vocabulary_[i])
            idf_value == MapGet(idf_, vocabulary_[i])
        IN F32Mul(tf_value, idf_value)]

\* mutant: the magnitudes are left squared (no square root)
cosine_similarity_no_sqrt(vec_a, vec_b) ==
    IF Len(vec_a) # Len(vec_b) \/ vec_a = <<>> THEN F32Zero
    ELSE LET dot_product == F32Sum([i \in 1..Len(vec_a) |-> F32Mul(vec_a[i], vec_b[i])])
             magnitude_a == F32Sum([i \in 1..Len(vec_a) |-> F32Mul(vec_a[i], vec_a[i])])
             magnitude_b == F32Sum([i \in 1..Len(vec_b) |-> F32Mul(vec_b[i], vec_b[i])])
         IN IF magnitude_a = F32Zero \/ magnitude_b = F32Zero THEN F32Zero
            ELSE F32Div(dot_product, F32Mul(magnitude_a, magnitude_b))

\* mutant: the dot product is divided by the first magnitude squared
cosine_similarity_first_magnitude(vec_a, vec_b) ==
    IF Len(vec_a) # Len(vec_b) \/ vec_a = <<>> THEN F32Zero
    ELSE LET dot_product == F32Sum([i \in 1..Len(vec_a) |-> F32Mul(vec_a[i], vec_b[i])])
             magnitude_a == F32Sqrt(F32Sum([i \in 1..Len(vec_a) |-> F32Mul(vec_a[i], vec_a[i])]))
             magnitude_b == F32Sqrt(F32Sum([i \in 1..Len(vec_b) |-> F32Mul(vec_b[i], vec_b[i])]))
         IN IF magnitude_a = F32Zero \/ magnitude_b = F32Zero THEN F32Zero
            ELSE F32Div(dot_product, F32Mul(magnitude_a, magnitude_a))

\* mutant: no test for a zero magnitude before the division
cosine_similarity_unguarded(vec_a, vec_b) ==
    IF Len(vec_a) # Len(vec_b) \/ vec_a = <<>> THEN F32Zero
    ELSE LET dot_product == F32Sum([i \in 1..Len(vec_a) |-> F32Mul(vec_a[i], vec_b[i])])
             magnitude_a == F32Sqrt(F32Sum([i \in 1..Len(vec_a) |-> F32Mul(vec_a[i], vec_a[i])]))
             magnitude_b == F32Sqrt(F32Sum([i \in 1..Len(vec_b) |-> F32Mul(vec_b[i], vec_b[i])]))
         IN F32Div(dot_product, F32Mul(magnitude_a, magnitude_b))

cosine_similarity(vec_a, vec_b) ==
    IF Len(vec_a) # Len(vec_b) \/ vec_a = <<>> THEN F32Zero
    ELSE LET dot_product == F32Sum([i \in 1..Len(vec_a) |-> F32Mul(vec_a[i], vec_b[i])])
             magnitude_a == F32Sqrt(F32Sum([i \in 1..Len(vec_a) |-> F32Mul(vec_a[i], vec_a[i])]))
             magnitude_b == F32Sqrt(F32Sum([i \in 1..Len(vec_b) |-> F32Mul(vec_b[i], vec_b[i])]))
         IN IF magnitude_a = F32Zero \/ magnitude_b = F32Zero THEN F32Zero
            ELSE F32Div(dot_product, F32Mul(magnitude_a, magnitude_b))

\* mutant: the diagonal is measured like every other cell
matrix_cell_measured(vectors_, i, j) == cosine_similarity(vectors_[i], vectors_[j])

\* one cell of the matrix (matrix.rs, the closure over j)
matrix_cell(vectors_, i, j) ==
    IF i = j THEN F32One
    ELSE IF i < j THEN cosine_similarity(vectors_[i], vectors_[j])
    ELSE cosine_similarity(vectors_[i], vectors_[j])

compute_similarity_matrix(vectors_) ==
    LET n == Len(vectors_)
    IN IF n = 0 THEN <<>>
       ELSE [i \in 1..n |-> [j \in 1..n |-> matrix_cell(vectors_, i, j)]]

\* ---------------------------------------------------- sparse vectors
\* compute_tfidf_vector: term -> tf * idf over the TF map's own keys
compute_tfidf_vector(tf, idf_) ==
    [term \in DOMAIN tf |-> F32Mul(tf[term], MapGet(idf_, term))]

\* A sparse vector in use is the sequence of the map's <<term, weight>>
\* entries in the map's iteration order, which a HashMap leaves unspecified.
IterationOrders(map) ==
    LET n == Cardinality(DOMAIN map)
    IN {[i \in 1..n |-> <<ks[i], map[ks[i]]>>] :
           ks \in {f \in [1..n -> DOMAIN map] : \A i, j \in 1..n : i # j => f[i] # f[j]}}

EntryGet(entries, term) ==
    IF \E i \in 1..Len(entries) : entries[i][1] = term
    THEN entries[CHOOSE i \in 1..Len(entries) : entries[i][1] = term][2]
    ELSE F32Zero

HasKey(entries, term) == \E i \in 1..Len(entries) : entries[i][1] = term

\* compute_cosine_similarity: dot product over the shared keys, magnitudes
\* over each side's own values, 0.0 when a magnitude is 0.0
compute_cosine_similarity(vec_a, vec_b) ==
    LET shared == SelectSeq(vec_a, LAMBDA en : HasKey(vec_b, en[1]))
        dot_product == F32Sum([i \in 1..Len(shared) |->
                                  F32Mul(shared[i][2], EntryGet(vec_b, shared[i][1]))])
        magnitude_a == F32Sqrt(F32Sum([i \in 1..Len(vec_a) |-> F32Mul(vec_a[i][2], vec_a[i][2])]))
        magnitude_b == F32Sqrt(F32Sum([i \in 1..Len(vec_b) |-> F32Mul(vec_b[i][2], vec_b[i][2])]))
    IN IF magnitude_a = F32Zero \/ magnitude_b = F32Zero THEN F32Zero
       ELSE F32Div(dot_product, F32Mul(magnitude_a, magnitude_b))

\* ------------------------------------------------- sentence pipeline
\* Document and sentence indices are 0-based as in the source; the model's
\* sequences are 1-based, so documents[d + 1] is the source's documents[d].

\* step 1: (doc_idx, sent_idx, sentence) triples, by document then sentence
RECURSIVE flatten_from(_, _)
flatten_from(documents_, d) ==
    IF d > Len(documents_) THEN <<>>
    ELSE [k \in 1..Len(documents_[d].sentences) |->
             <<d - 1, k - 1, documents_[d].sentences[k]>>]
         \o flatten_from(documents_, d + 1)

flatten(documents_) == flatten_from(documents_, 1)

\* the score a record is sorted by
Score(rec) == IF "similarity" \in DOMAIN rec THEN rec.similarity ELSE rec.score

\* mutant: the list is returned in enumeration order, unsorted
keep_enumeration_order(records) == records

\* mutant: a record goes in front of the records of equal score
RECURSIVE insert_desc_before_equal(_, _)
insert_desc_before_equal(sorted, x) ==
    IF sorted = <<>> THEN <<x>>
    ELSE IF ~F32Lt(Score(x), Score(sorted[1])) THEN <<x>> \o sorted
    ELSE <<sorted[1]>> \o insert_desc_before_equal(Tail(sorted), x)

\* sort_by(|a, b| b.partial_cmp(a)): stable, descending
RECURSIVE insert_desc(_, _)
insert_desc(sorted, x) ==
    IF sorted = <<>> THEN <<x>>
    ELSE IF F32Lt(Score(sorted[1]), Score(x)) THEN <<x>> \o sorted
    ELSE <<sorted[1]>> \o insert_desc(Tail(sorted), x)

RECURSIVE sort_desc_from(_, _)
sort_desc_from(sorted, rest) ==
    IF rest = <<>> THEN sorted
    ELSE sort_desc_from(insert_desc(sorted, rest[1]), Tail(rest))

sort_by_score_desc(records) == sort_desc_from(<<>>, records)

\* partial_cmp(..).unwrap() panics on a NaN score; a sort of two or more
\* records hands every record to the comparison at least once
sort_panics(records) ==
    Len(records) >= 2 /\ \E k \in 1..Len(records) : Score(records[k]) = F32NaN

\* mutant: the two sentence texts change sides
new_sentence_match_texts_swapped(vec_a, vec_b, documents_, similarity) ==
    [source_doc |-> documents_[vec_a.doc_index + 1].filename,
     source_sentence_index |-> vec_a.sentence_index,
     source_sentence |->
         documents_[vec_b.doc_index + 1].sentences[vec_b.sentence_index + 1],
     target_doc |-> documents_[vec_b.doc_index + 1].filename,
     target_sentence_index |-> vec_b.sentence_index,
     target_sentence |->
         documents_[vec_a.doc_index + 1].sentences[vec_a.sentence_index + 1],
     similarity |-> similarity]

\* SentenceMatch::new(..) with the labels and texts read back from documents
new_sentence_match(vec_a, vec_b, documents_, similarity) ==
    [source_doc |-> documents_[vec_a.doc_index + 1].filename,
     source_sentence_index |-> vec_a.sentence_index,
     source_sentence |->
         documents_[vec_a.doc_index + 1].sentences[vec_a.sentence_index + 1],
     target_doc |-> documents_[vec_b.doc_index + 1].filename,
     target_sentence_index |-> vec_b.sentence_index,
     target_sentence |->
         documents_[vec_b.doc_index + 1].sentences[vec_b.sentence_index + 1],
     similarity |-> similarity]

\* mutant: the same-document test is missing
sentence_match_any_document(vec_a, vec_b, documents_, threshold_) ==
    LET similarity == compute_cosine_similarity(vec_a.vector, vec_b.vector)
    IN IF F32Le(threshold_, similarity)
       THEN <<new_sentence_match(vec_a, vec_b, documents_, similarity)>>
       ELSE <<>>

\* mutant: `>` in place of `>=`
sentence_match_strict(vec_a, vec_b, documents_, threshold_) ==
    IF vec_a.doc_index = vec_b.doc_index THEN <<>>
    ELSE LET similarity == compute_cosine_similarity(vec_a.vector, vec_b.vector)
         IN IF F32Lt(threshold_, similarity)
            THEN <<new_sentence_match(vec_a, vec_b, documents_, similarity)>>
            ELSE <<>>

\* the filter_map closure of compute_sentence_matches: zero or one match
sentence_match(vec_a, vec_b, documents_, threshold_) ==
    IF vec_a.doc_index = vec_b.doc_index THEN <<>>
    ELSE LET similarity == compute_cosine_similarity(vec_a.vector, vec_b.vector)
         IN IF F32Le(threshold_, similarity)
            THEN <<new_sentence_match(vec_a, vec_b, documents_, similarity)>>
            ELSE <<>>

\* vectors.iter().skip(i + 1).filter_map(..) for the i-th vector
RECURSIVE matches_with(_, _, _, _, _)
matches_with(vectors_, documents_, threshold_, i, j) ==
    IF j > Len(vectors_) THEN <<>>
    ELSE sentence_match(vectors_[i], vectors_[j], documents_, threshold_)
         \o matches_with(vectors_, documents_, threshold_, i, j + 1)

\* mutant: the inner iterator is not advanced past i, so every vector is
\* paired with every vector
RECURSIVE matches_from_every_vector(_, _, _, _)
matches_from_every_vector(vectors_, documents_, threshold_, i) ==
    IF i > Len(vectors_) THEN <<>>
    ELSE matches_with(vectors_, documents_, threshold_, i, 1)
         \o matches_from_every_vector(vectors_, documents_, threshold_, i + 1)

RECURSIVE matches_from(_, _, _, _)
matches_from(vectors_, documents_, threshold_, i) ==
    IF i > Len(vectors_) THEN <<>>
    ELSE matches_with(vectors_, documents_, threshold_, i, i + 1)
         \o matches_from(vectors_, documents_, threshold_, i + 1)

compute_sentence_matches(vectors_, documents_, threshold_) ==
    sort_by_score_desc(matches_from(vectors_, documents_, threshold_, 1))

\* documents[vec.doc_index].sentences[vec.sentence_index] does not panic
index_in_range(vec, documents_) ==
    /\ vec.doc_index < Len(documents_)
    /\ vec.sentence_index < Len(documents_[vec.doc_index + 1].sentences)

\* compute_sentence_matches panics: an index out of range while a match is
\* built, or a NaN similarity in the sort
compute_sentence_matches_panics(vectors_, documents_, threshold_) ==
    \/ \E i, j \in 1..Len(vectors_) :
          /\ i < j
          /\ vectors_[i].doc_index # vectors_[j].doc_index
          /\ F32Le(threshold_, compute_cosine_similarity(vectors_[i].vector,
                                                         vectors_[j].vector))
          /\ ~(index_in_range(vectors_[i], documents_)
               /\ index_in_range(vectors_[j], documents_))
    \/ sort_panics(matches_from(vectors_, documents_, threshold_, 1))

\* doc_vectors.get(d).unwrap_or(&empty_vec): the vectors of document d, in order
doc_vectors(vectors_, d) == SelectSeq(vectors_, LAMBDA v : v.doc_index = d)

\* (a, b) for 0 <= a < b < n, in lexicographic order
RECURSIVE doc_pairs_from(_, _, _)
doc_pairs_from(n, a, b) ==
    IF a >= n THEN <<>>
    ELSE IF b >= n THEN doc_pairs_from(n, a + 1, a + 2)
    ELSE <<(<<a, b>>)>> \o doc_pairs_from(n, a, b + 1)

\* mutant: the inner range starts at 0, so both (a, b) and (b, a) are listed
doc_pairs_both_orders(n) ==
    LET all == [k \in 1..(n * n) |-> <<(k - 1) \div n, (k - 1) % n>>]
    IN SelectSeq(all, LAMBDA pr : pr[1] # pr[2])

doc_pairs(n) == doc_pairs_from(n, 0, 1)

\* vecs_a.iter().flat_map(|a| vecs_b.iter().map(|b| cos(a, b))).collect()
cross_similarities(vecs_a, vecs_b) ==
    [k \in 1..(Len(vecs_a) * Len(vecs_b)) |->
        compute_cosine_similarity(vecs_a[((k - 1) \div Len(vecs_b)) + 1].vector,
                                  vecs_b[((k - 1) % Len(vecs_b)) + 1].vector)]

\* mutant: only the similarities that reach the match threshold are averaged
global_similarity_above_threshold(vectors_, documents_, doc_a_idx, doc_b_idx) ==
    LET vecs_a == doc_vectors(vectors_, doc_a_idx)
        vecs_b == doc_vectors(vectors_, doc_b_idx)
    IN IF vecs_a = <<>> \/ vecs_b = <<>> THEN <<>>
       ELSE LET similarities == SelectSeq(cross_similarities(vecs_a, vecs_b),
                                          LAMBDA x : F32Le(threshold, x))
                avg_similarity == IF similarities = <<>> THEN F32Zero
                                  ELSE F32Div(F32Sum(similarities),
                                              F32FromInt(Len(similarities)))
            IN <<[doc_a |-> documents_[doc_a_idx + 1].filename,
                  doc_b |-> documents_[doc_b_idx + 1].filename,
                  score |-> avg_similarity]>>

\* mutant: a pair with a sentence-less document is reported with score 0
global_similarity_with_empty(vectors_, documents_, doc_a_idx, doc_b_idx) ==
    LET vecs_a == doc_vectors(vectors_, doc_a_idx)
        vecs_b == doc_vectors(vectors_, doc_b_idx)
        similarities == cross_similarities(vecs_a, vecs_b)
        avg_similarity == IF similarities = <<>> THEN F32Zero
                          ELSE F32Div(F32Sum(similarities), F32FromInt(Len(similarities)))
    IN <<[doc_a |-> documents_[doc_a_idx + 1].filename,
          doc_b |-> documents_[doc_b_idx + 1].filename,
          score |-> avg_similarity]>>

\* mutant: no is_empty test, so a sentence-less document gives 0.0 / 0.0
global_similarity_unguarded(vectors_, documents_, doc_a_idx, doc_b_idx) ==
    LET vecs_a == doc_vectors(vectors_, doc_a_idx)
        vecs_b == doc_vectors(vectors_, doc_b_idx)
        similarities == cross_similarities(vecs_a, vecs_b)
        avg_similarity == F32Div(F32Sum(similarities), F32FromInt(Len(similarities)))
    IN <<[doc_a |-> documents_[doc_a_idx + 1].filename,
          doc_b |-> documents_[doc_b_idx + 1].filename,
          score |-> avg_similarity]>>

\* the filter_map closure of compute_global_similarities: zero or one record
global_similarity(vectors_, documents_, doc_a_idx, doc_b_idx) ==
    LET vecs_a == doc_vectors(vectors_, doc_a_idx)
        vecs_b == doc_vectors(vectors_, doc_b_idx)
    IN IF vecs_a = <<>> \/ vecs_b = <<>> THEN <<>>
       ELSE LET similarities == cross_similarities(vecs_a, vecs_b)
                avg_similarity == F32Div(F32Sum(similarities),
                                         F32FromInt(Len(similarities)))
            IN <<[doc_a |-> documents_[doc_a_idx + 1].filename,
                  doc_b |-> documents_[doc_b_idx + 1].filename,
                  score |-> avg_similarity]>>

RECURSIVE global_sims_from(_, _, _)
global_sims_from(vectors_, documents_, pairs) ==
    IF pairs = <<>> THEN <<>>
    ELSE global_similarity(vectors_, documents_, pairs[1][1], pairs[1][2])
         \o global_sims_from(vectors_, documents_, Tail(pairs))

compute_global_similarities(vectors_, documents_) ==
    sort_by_score_desc(global_sims_from(vectors_, documents_, doc_pairs(Len(documents_))))

\* compute_global_similarities panics: a NaN score in the sort
compute_global_similarities_panics(vectors_, documents_) ==
    sort_panics(global_sims_from(vectors_, documents_, doc_pairs(Len(documents_))))

\* ------------------------------------------------------------- inputs
MaxSentenceDocs == 3
MaxSentences == 3
MaxDocuments == 3

\* sentences as the splitter hands them over: "A b.", "b", "!"
SentencePool == {<<"A", " ", "b", ".">>, <<"b">>, <<"!">>}

\* raw documents: "a b", "B, A!", "a", "c", "!?", "a b c"
DocumentPool == {<<"a", " ", "b">>, <<"B", ",", " ", "A", "!">>, <<"a">>, <<"c">>,
                 <<"!", "?">>, <<"a", " ", "b", " ", "c">>}

FileNames == <<"report.pdf", "notes.docx", "essay.txt", "draft.txt", "memo.txt">>

\* 0.0, 0.7 (the handler's default 0.70 as f32) and 1.0
Thresholds == {F32Zero, <<11744051, -24>>, F32One}

SentenceLists(budget) == UNION {[1..k -> SentencePool] : k \in 0..budget}

\* every way to give n documents at most `budget` sentences in total
RECURSIVE SentenceListSeqs(_, _)
SentenceListSeqs(n, budget) ==
    IF n = 0 THEN {<<>>}
    ELSE UNION {{<<sl>> \o rest : rest \in SentenceListSeqs(n - 1, budget - Len(sl))} :
                   sl \in SentenceLists(budget)}

SentenceDocumentInputs ==
    {[d \in 1..Len(sls) |-> [filename |-> FileNames[d], sentences |-> sls[d]]] :
        sls \in UNION {SentenceListSeqs(n, MaxSentences) : n \in 0..MaxSentenceDocs}}

DocumentInputs == UNION {[1..n -> DocumentPool] : n \in 0..MaxDocuments}

SentenceIdle ==
    /\ documents = <<>>
    /\ threshold = F32Zero
    /\ all_sentences = <<>>
    /\ processed_sentences = <<>>
    /\ sentence_tfs = <<>>
    /\ global_idf = EmptyMap
    /\ sentence_vectors = <<>>
    /\ matches = <<>>
    /\ global_similarities = <<>>

DocumentIdle ==
    /\ docs = <<>>
    /\ labels = <<>>
    /\ normalized = <<>>
    /\ tokenized = <<>>
    /\ tfs = <<>>
    /\ idf = EmptyMap
    /\ vocabulary = <<>>
    /\ vectors = <<>>
    /\ matrix = <<>>

UploadIdle ==
    /\ request = <<>>
    /\ multipart = <<>>
    /\ files = <<>>
    /\ threshold_value = <<>>
    /\ total_size = 0
    /\ field = <<>>
    /\ handler = "idle"
    /\ response = <<>>

\* no parallel stage is followed task by task
ParIdle ==
    /\ tasks = <<>>
    /\ slots = <<>>
    /\ idf_calls = 0

OtherIdle == previous = <<>> /\ UploadIdle /\ ParIdle

\* ------------------------------------- analyze_sentence_similarity
Init ==
    /\ pc = "flatten"
    /\ documents \in SentenceDocumentInputs
    /\ threshold \in Thresholds
    /\ all_sentences = <<>>
    /\ processed_sentences = <<>>
    /\ sentence_tfs = <<>>
    /\ global_idf = EmptyMap
    /\ sentence_vectors = <<>>
    /\ matches = <<>>
    /\ global_similarities = <<>>
    /\ DocumentIdle
    /\ OtherIdle

\* step 1, and the early return on an empty flattened list
Flatten ==
    /\ pc = "flatten"
    /\ all_sentences' = flatten(documents)
    /\ pc' = IF all_sentences' = <<>> THEN "done" ELSE "process"
    /\ UNCHANGED <<documents, threshold, processed_sentences, sentence_tfs, global_idf,
                   sentence_vectors, matches, global_similarities, dvars, ovars>>

\* step 2
ProcessSentences ==
    /\ pc = "process"
    /\ processed_sentences' =
           [k \in 1..Len(all_sentences) |->
               <<all_sentences[k][1], all_sentences[k][2], all_sentences[k][3],
                 tokenize(normalize_text(all_sentences[k][3]))>>]
    /\ pc' = "tf"
    /\ UNCHANGED <<documents, threshold, all_sentences, sentence_tfs, global_idf,
                   sentence_vectors, matches, global_similarities, dvars, ovars>>

\* step 3 (processed_sentences is consumed)
ComputeSentenceTfs ==
    /\ pc = "tf"
    /\ sentence_tfs' =
           [k \in 1..Len(processed_sentences) |->
               <<processed_sentences[k][1], processed_sentences[k][2],
                 processed_sentences[k][3], compute_tf(processed_sentences[k][4])>>]
    /\ processed_sentences' = <<>>
    /\ pc' = "idf"
    /\ UNCHANGED <<documents, threshold, all_sentences, global_idf,
                   sentence_vectors, matches, global_similarities, dvars, ovars>>

\* mutant: sentences without a token are left out of the corpus
ComputeGlobalIdfSkippingEmpty ==
    /\ pc = "idf"
    /\ LET tfs_only == [k \in 1..Len(sentence_tfs) |-> sentence_tfs[k][4]]
       IN global_idf' = compute_idf(SelectSeq(tfs_only, LAMBDA tf : DOMAIN tf # {}))
    /\ pc' = "vectorize"
    /\ UNCHANGED <<documents, threshold, all_sentences, processed_sentences, sentence_tfs,
                   sentence_vectors, matches, global_similarities, dvars, ovars>>

\* step 4
ComputeGlobalIdf ==
    /\ pc = "idf"
    /\ LET tfs_only == [k \in 1..Len(sentence_tfs) |-> sentence_tfs[k][4]]
       IN global_idf' = compute_idf(tfs_only)
    /\ pc' = "vectorize"
    /\ UNCHANGED <<documents, threshold, all_sentences, processed_sentences, sentence_tfs,
                   sentence_vectors, matches, global_similarities, dvars, ovars>>

\* the sequences that take their k-th element from choices[k]
RECURSIVE SeqProduct(_)
SeqProduct(choices) ==
    IF choices = <<>> THEN {<<>>}
    ELSE {<<x>> \o rest : x \in choices[1], rest \in SeqProduct(Tail(choices))}

\* step 5 (sentence_tfs is consumed); each new map gets an iteration order
VectorizeSentences ==
    /\ pc = "vectorize"
    /\ sentence_vectors' \in
           SeqProduct([k \in 1..Len(sentence_tfs) |->
               {[doc_index |-> sentence_tfs[k][1],
                 sentence_index |-> sentence_tfs[k][2],
                 vector |-> entries] :
                    entries \in IterationOrders(
                        compute_tfidf_vector(sentence_tfs[k][4], global_idf))}])
    /\ sentence_tfs' = <<>>
    /\ pc' = "matches"
    /\ UNCHANGED <<documents, threshold, all_sentences, processed_sentences, global_idf,
                   matches, global_similarities, dvars, ovars>>

\* step 6
ComputeSentenceMatches ==
    /\ pc = "matches"
    /\ IF compute_sentence_matches_panics(sentence_vectors, documents, threshold)
       THEN pc' = "panicked" /\ matches' = matches
       ELSE /\ matches' = compute_sentence_matches(sentence_vectors, documents, threshold)
            /\ pc' = "global"
    /\ UNCHANGED <<documents, threshold, all_sentences, processed_sentences, sentence_tfs,
                   global_idf, sentence_vectors, global_similarities, dvars, ovars>>

\* step 7 and the return
ComputeGlobalSimilarities ==
    /\ pc = "global"
    /\ IF compute_global_similarities_panics(sentence_vectors, documents)
       THEN pc' = "panicked" /\ global_similarities' = global_similarities
       ELSE /\ global_similarities' =
                   compute_global_similarities(sentence_vectors, documents)
            /\ pc' = "done"
    /\ UNCHANGED <<documents, threshold, all_sentences, processed_sentences, sentence_tfs,
                   global_idf, sentence_vectors, matches, dvars, ovars>>

Next ==
    \/ Flatten
    \/ ProcessSentences
    \/ ComputeSentenceTfs
    \/ ComputeGlobalIdf
    \/ VectorizeSentences
    \/ ComputeSentenceMatches
    \/ ComputeGlobalSimilarities

Spec == Init /\ [][Next]_vars

\* ------------------------------------------------- analyze_documents
\* format!("{}", i) for i >= 0
RECURSIVE decimal(_)
decimal(i) ==
    IF i < 10 THEN <<AsciiDigit[i + 1]>>
    ELSE decimal(i \div 10) \o <<AsciiDigit[(i % 10) + 1]>>

\* mutant: labels numbered from 1
doc_label_one_based(i) == <<"d", "o", "c">> \o decimal(i + 1)

\* format!("doc{}", i)
doc_label(i) == <<"d", "o", "c">> \o decimal(i)

InitDoc ==
    /\ pc = "labels"
    /\ docs \in DocumentInputs
    /\ labels = <<>>
    /\ normalized = <<>>
    /\ tokenized = <<>>
    /\ tfs = <<>>
    /\ idf = EmptyMap
    /\ vocabulary = <<>>
    /\ vectors = <<>>
    /\ matrix = <<>>
    /\ SentenceIdle
    /\ OtherIdle

\* the early return on an empty list, else the labels
GenerateLabels ==
    /\ pc = "labels"
    /\ labels' = [k \in 1..Len(docs) |-> doc_label(k - 1)]
    /\ pc' = IF docs = <<>> THEN "done" ELSE "normalize"
    /\ UNCHANGED <<docs, normalized, tokenized, tfs, idf, vocabulary, vectors, matrix, svars, ovars>>

\* stage 1
NormalizeDocuments ==
    /\ pc = "normalize"
    /\ normalized' = [k \in 1..Len(docs) |-> normalize_text(docs[k])]
    /\ pc' = "tokenize"
    /\ UNCHANGED <<docs, labels, tokenized, tfs, idf, vocabulary, vectors, matrix, svars, ovars>>

\* stage 2
TokenizeDocuments ==
    /\ pc = "tokenize"
    /\ tokenized' = [k \in 1..Len(normalized) |-> tokenize(normalized[k])]
    /\ pc' = "doc_tf"
    /\ UNCHANGED <<docs, labels, normalized, tfs, idf, vocabulary, vectors, matrix, svars, ovars>>

\* stage 3
ComputeTfs ==
    /\ pc = "doc_tf"
    /\ tfs' = [k \in 1..Len(tokenized) |-> compute_tf(tokenized[k])]
    /\ pc' = "doc_idf"
    /\ UNCHANGED <<docs, labels, normalized, tokenized, idf, vocabulary, vectors, matrix, svars, ovars>>

\* stage 4
ComputeIdf ==
    /\ pc = "doc_idf"
    /\ idf' = compute_idf(tfs)
    /\ pc' = "vocabulary"
    /\ UNCHANGED <<docs, labels, normalized, tokenized, tfs, vocabulary, vectors, matrix, svars, ovars>>

\* stage 5
BuildVocabulary ==
    /\ pc = "vocabulary"
    /\ vocabulary' = sorted_vocabulary(DOMAIN idf)
    /\ pc' = "doc_vectorize"
    /\ UNCHANGED <<docs, labels, normalized, tokenized, tfs, idf, vectors, matrix, svars, ovars>>

\* stage 6
VectorizeDocuments ==
    /\ pc = "doc_vectorize"
    /\ vectors' = [k \in 1..Len(tfs) |-> vectorize(tfs[k], idf, vocabulary)]
    /\ pc' = "matrix"
    /\ UNCHANGED <<docs, labels, normalized, tokenized, tfs, idf, vocabulary, matrix, svars, ovars>>

\* stage 7 and the return
ComputeMatrix ==
    /\ pc = "matrix"
    /\ matrix' = compute_similarity_matrix(vectors)
    /\ pc' = "done"
    /\ UNCHANGED <<docs, labels, normalized, tokenized, tfs, idf, vocabulary, vectors, svars, ovars>>

NextDoc ==
    \/ GenerateLabels
    \/ NormalizeDocuments
    \/ TokenizeDocuments
    \/ ComputeTfs
    \/ ComputeIdf
    \/ BuildVocabulary
    \/ VectorizeDocuments
    \/ ComputeMatrix

SpecDoc == InitDoc /\ [][NextDoc]_vars

\* ------------------------------------------------ either entry point
InitCore == Init \/ InitDoc

NextCore ==
    \/ Flatten
    \/ ProcessSentences
    \/ ComputeSentenceTfs
    \/ ComputeGlobalIdf
    \/ VectorizeSentences
    \/ ComputeSentenceMatches
    \/ ComputeGlobalSimilarities
    \/ GenerateLabels
    \/ NormalizeDocuments
    \/ TokenizeDocuments
    \/ ComputeTfs
    \/ ComputeIdf
    \/ BuildVocabulary
    \/ VectorizeDocuments
    \/ ComputeMatrix

SpecCore == InitCore /\ [][NextCore]_vars

\* ------------------------------------------- the same call made twice
\* sentences "a b c", "a b", "b": three terms of different weights in one map
RerunSentencePool == {<<"a", " ", "b", " ", "c">>, <<"a", " ", "b">>, <<"b">>}

\* up to MaxSentenceDocs documents of one sentence each
RerunSentenceInputs ==
    {{[d \in 1..n |-> [filename |-> FileNames[d], sentences |-> <<ss[d]>>]] :
        ss \in [1..n -> RerunSentencePool]} : n \in 0..MaxSentenceDocs}

\* request names the function the caller calls twice
InitRerun ==
    /\ \/ /\ pc = "flatten"
          /\ request = <<"analyze_sentence_similarity">>
          /\ documents \in UNION RerunSentenceInputs
          /\ threshold \in Thresholds
          /\ docs = <<>>
       \/ /\ pc = "labels"
          /\ request = <<"analyze_documents">>
          /\ docs \in DocumentInputs
          /\ documents = <<>>
          /\ threshold = F32Zero
    /\ all_sentences = <<>>
    /\ processed_sentences = <<>>
    /\ sentence_tfs = <<>>
    /\ global_idf = EmptyMap
    /\ sentence_vectors = <<>>
    /\ matches = <<>>
    /\ global_similarities = <<>>
    /\ labels = <<>>
    /\ normalized = <<>>
    /\ tokenized = <<>>
    /\ tfs = <<>>
    /\ idf = EmptyMap
    /\ vocabulary = <<>>
    /\ vectors = <<>>
    /\ matrix = <<>>
    /\ previous = <<>>
    /\ ParIdle
    /\ multipart = <<>>
    /\ files = <<>>
    /\ threshold_value = <<>>
    /\ total_size = 0
    /\ field = <<>>
    /\ handler = "idle"
    /\ response = <<>>

\* the caller keeps the returned pair and calls analyze_sentence_similarity
\* again with the same documents and threshold
RerunSentences ==
    /\ pc = "done"
    /\ previous = <<>>
    /\ request = <<"analyze_sentence_similarity">>
    /\ previous' = <<[matches |-> matches, global_similarities |-> global_similarities]>>
    /\ pc' = "flatten"
    /\ all_sentences' = <<>>
    /\ processed_sentences' = <<>>
    /\ sentence_tfs' = <<>>
    /\ global_idf' = EmptyMap
    /\ sentence_vectors' = <<>>
    /\ matches' = <<>>
    /\ global_similarities' = <<>>
    /\ UNCHANGED <<documents, threshold, dvars, uvars, pvars>>

\* the caller keeps the returned pair and calls analyze_documents again with
\* the same documents
RerunDocuments ==
    /\ pc = "done"
    /\ previous = <<>>
    /\ request = <<"analyze_documents">>
    /\ previous' = <<[matrix |-> matrix, labels |-> labels]>>
    /\ pc' = "labels"
    /\ labels' = <<>>
    /\ normalized' = <<>>
    /\ tokenized' = <<>>
    /\ tfs' = <<>>
    /\ idf' = EmptyMap
    /\ vocabulary' = <<>>
    /\ vectors' = <<>>
    /\ matrix' = <<>>
    /\ UNCHANGED <<docs, svars, uvars, pvars>>

NextRerun ==
    \/ Flatten
    \/ ProcessSentences
    \/ ComputeSentenceTfs
    \/ ComputeGlobalIdf
    \/ VectorizeSentences
    \/ ComputeSentenceMatches
    \/ ComputeGlobalSimilarities
    \/ RerunSentences
    \/ GenerateLabels
    \/ NormalizeDocuments
    \/ TokenizeDocuments
    \/ ComputeTfs
    \/ ComputeIdf
    \/ BuildVocabulary
    \/ VectorizeDocuments
    \/ ComputeMatrix
    \/ RerunDocuments

SpecRerun == InitRerun /\ [][NextRerun]_vars

\* ------------------------------------------------------- file upload
MAX_FILE_SIZE == 10 * 1024 * 1024
MAX_TOTAL_SIZE == 50 * 1024 * 1024
MAX_FILES == 5
MIN_FILES == 2
\* 0.70 as f32
DEFAULT_THRESHOLD == <<11744051, -24>>

\* str::trim
RECURSIVE trim_start(_)
trim_start(s) ==
    IF s # <<>> /\ is_whitespace(s[1]) THEN trim_start(Tail(s)) ELSE s

RECURSIVE trim_end(_)
trim_end(s) ==
    IF s # <<>> /\ is_whitespace(s[Len(s)])
    THEN trim_end(SubSeq(s, 1, Len(s) - 1))
    ELSE s

trim(s) == trim_end(trim_start(s))

\* str::parse::<f32> on the decimal literals the model sends: <<v>> for
\* Ok(v), <<>> for Err (no surrounding whitespace is accepted)
parse_f32(text) ==
    CASE text = <<"0", ".", "5">> -> <<(<<Two23, -24>>)>>
      [] text = <<"1">> -> <<F32One>>
      [] text = <<"1", ".", "5">> -> <<(<<12582912, -23>>)>>
      [] text = <<"-", "0", ".", "1">> -> <<(<<-13421773, -27>>)>>
      [] text = <<"N", "a", "N">> -> <<F32NaN>>
      [] OTHER -> <<>>

\* Path::components without the root and current-directory components: the
\* non-empty parts between the '/' separators other than "."
RECURSIVE path_parts(_, _)
path_parts(path, part) ==
    LET closed == IF part \in {<<>>, <<".">>} THEN <<>> ELSE <<part>>
    IN IF path = <<>> THEN closed
       ELSE IF path[1] = "/" THEN closed \o path_parts(Tail(path), <<>>)
       ELSE path_parts(Tail(path), Append(part, path[1]))

\* Path::file_name: the last component unless it is ".."; <<name>> or <<>>
path_file_name(path) ==
    LET parts == path_parts(path, <<>>)
    IN IF parts = <<>> \/ parts[Len(parts)] = <<".", ".">> THEN <<>>
       ELSE <<parts[Len(parts)]>>

\* Path::extension: the part after the last dot of the file name, when the
\* file name has a dot after its first character; <<ext>> or <<>>
path_extension(filename) ==
    LET file_name_ == path_file_name(filename)
    IN IF file_name_ = <<>> THEN <<>>
       ELSE LET name == file_name_[1]
                dots == {i \in 2..Len(name) : name[i] = "."}
            IN IF dots = {} THEN <<>>
               ELSE LET last == CHOOSE i \in dots : \A j \in dots : j <= i
                    IN <<SubSeq(name, last + 1, Len(name))>>

\* FileType::from_extension; <<type>> or <<>>
from_extension(extension) ==
    LET lower == [i \in 1..Len(extension) |-> to_ascii_lowercase(extension[i])]
    IN CASE lower = <<"p", "d", "f">> -> <<"Pdf">>
         [] lower = <<"d", "o", "c", "x">> -> <<"Docx">>
         [] lower = <<"t", "x", "t">> -> <<"Txt">>
         [] OTHER -> <<>>

\* FileType::from_filename
from_filename(filename) ==
    LET ext == path_extension(filename)
    IN IF ext = <<>> THEN <<>> ELSE from_extension(ext[1])

\* The bytes of a file are kept as their length, whether they decode, and
\* the text decoding them gives (for a DOCX file: its non-blank paragraphs
\* joined by "\n").
\* extract_text: <<text>> for Ok(text), <<>> for Err; extract_pdf and
\* extract_txt trim the text, extract_docx does not
extract_text(data, file_type) ==
    IF ~data.decodes THEN <<>>
    ELSE IF file_type = "Docx" THEN <<data.content>>
    ELSE <<trim(data.content)>>

\* the regex [.!?](?:\s+|$) matches at position i
splitter_matches(text, i) ==
    /\ text[i] \in {".", "!", "?"}
    /\ i = Len(text) \/ is_whitespace(text[i + 1])

\* the end (exclusive) of the match that starts at i: the mark and the
\* whitespace run after it
RECURSIVE splitter_end(_, _)
splitter_end(text, k) ==
    IF k <= Len(text) /\ is_whitespace(text[k]) THEN splitter_end(text, k + 1) ELSE k

\* the loop over find_iter and the remaining text
RECURSIVE split_from(_, _, _)
split_from(text, last_end, i) ==
    IF i > Len(text)
    THEN LET last_sentence == trim(SubSeq(text, last_end, Len(text)))
         IN IF last_sentence = <<>> THEN <<>> ELSE <<last_sentence>>
    ELSE IF splitter_matches(text, i)
    THEN LET sentence == trim(SubSeq(text, last_end, i))
             next == splitter_end(text, i + 1)
         IN (IF sentence = <<>> THEN <<>> ELSE <<sentence>>)
            \o split_from(text, next, next)
    ELSE split_from(text, last_end, i + 1)

split_sentences(text) ==
    IF trim(text) = <<>> THEN <<>> ELSE split_from(text, 1, 1)

\* the closure of the handler's map over files: an error, or a document
document_of(file) ==
    LET filename == file[1]
        data == file[2]
        file_type == from_filename(filename)
    IN IF file_type = <<>>
       THEN [error |-> "UnsupportedFileType", filename |-> filename]
       ELSE LET text == extract_text(data, file_type[1])
            IN IF text = <<>>
               THEN [error |-> "ExtractionError", filename |-> filename]
               ELSE LET sentences == split_sentences(text[1])
                    IN IF sentences = <<>>
                       THEN [error |-> "EmptyDocument", filename |-> filename]
                       ELSE [filename |-> filename, sentences |-> sentences]

\* collect::<Result<Vec<_>, _>>(): the first error, if any
first_error(results) ==
    LET errors == {k \in 1..Len(results) : "error" \in DOMAIN results[k]}
    IN IF errors = {} THEN <<>>
       ELSE <<results[CHOOSE k \in errors : \A j \in errors : k <= j]>>

\* mutant: the range test also rejects what is not a number
threshold_rejected_with_nan(threshold_) ==
    threshold_ = F32NaN \/ F32Lt(threshold_, F32Zero) \/ F32Lt(F32One, threshold_)

\* threshold < 0.0 || threshold > 1.0
threshold_rejected(threshold_) ==
    F32Lt(threshold_, F32Zero) \/ F32Lt(F32One, threshold_)

\* ------------------------------------------------------ upload inputs
MaxFields == 3

\* the texts of a "threshold" field: "0.5", " 1 ", "1.5", "-0.1", "NaN", "abc"
ThresholdTexts ==
    {<<"0", ".", "5">>, <<" ", "1", " ">>, <<"1", ".", "5">>, <<"-", "0", ".", "1">>,
     <<"N", "a", "N">>, <<"a", "b", "c">>}

ThresholdFields == {[name |-> "threshold", text |-> t] : t \in ThresholdTexts}

\* e.txt "A b. b", n.TXT "b!", i.jpg, k.txt " ", b.pdf of 10 MiB + 1 byte,
\* a file field without a file name, s.pdf that does not decode
FileFields ==
    {[name |-> "files", file_name |-> <<(<<"e", ".", "t", "x", "t">>)>>,
      data |-> [len |-> 6, decodes |-> TRUE, content |-> <<"A", " ", "b", ".", " ", "b">>]],
     [name |-> "files", file_name |-> <<(<<"n", ".", "T", "X", "T">>)>>,
      data |-> [len |-> 2, decodes |-> TRUE, content |-> <<"b", "!">>]],
     [name |-> "files", file_name |-> <<(<<"i", ".", "j", "p", "g">>)>>,
      data |-> [len |-> 3, decodes |-> TRUE, content |-> <<"b">>]],
     [name |-> "files", file_name |-> <<(<<"k", ".", "t", "x", "t">>)>>,
      data |-> [len |-> 1, decodes |-> TRUE, content |-> <<" ">>]],
     [name |-> "files", file_name |-> <<(<<"b", ".", "p", "d", "f">>)>>,
      data |-> [len |-> MAX_FILE_SIZE + 1, decodes |-> TRUE, content |-> <<"b">>]],
     [name |-> "files", file_name |-> <<>>,
      data |-> [len |-> 1, decodes |-> TRUE, content |-> <<"b">>]],
     [name |-> "files", file_name |-> <<(<<"s", ".", "p", "d", "f">>)>>,
      data |-> [len |-> 4, decodes |-> FALSE, content |-> <<>>]]}

\* a part that next_field() cannot read, a threshold field whose text()
\* fails, and a file field n.TXT whose bytes() fails
BrokenFields ==
    {[name |-> "unreadable"],
     [name |-> "threshold", read_error |-> TRUE],
     [name |-> "files", file_name |-> <<(<<"n", ".", "T", "X", "T">>)>>,
      read_error |-> TRUE]}

MultipartInputs ==
    UNION {[1..n -> ThresholdFields \cup FileFields \cup BrokenFields] : n \in 0..MaxFields}

\* ------------------------------------------- analyze_files_handler
InitUpload ==
    /\ pc = "next_field"
    /\ request \in MultipartInputs
    /\ multipart = request
    /\ files = <<>>
    /\ threshold_value = <<>>
    /\ total_size = 0
    /\ field = <<>>
    /\ handler = "running"
    /\ response = <<>>
    /\ previous = <<>>
    /\ ParIdle
    /\ SentenceIdle
    /\ DocumentIdle

\* the handler returns Err(error)
Fail(error) ==
    /\ response' = <<error>>
    /\ handler' = "returned"
    /\ pc' = "responded"

\* the first part of a turn of the while loop, up to the await of the
\* field's body: next_field().await, the field name and, for a file field,
\* the file name
NextField ==
    /\ pc = "next_field"
    /\ multipart # <<>>
    /\ multipart' = Tail(multipart)
    /\ LET part == Head(multipart)
       IN IF part.name = "unreadable"
          THEN /\ Fail([error |-> "InvalidMultipart"])
               /\ UNCHANGED field
          ELSE IF part.name # "threshold" /\ part.file_name = <<>>
          THEN /\ Fail([error |-> "MissingFilename"])
               /\ UNCHANGED field
          ELSE /\ field' = <<part>>
               /\ pc' = "read_field"
               /\ UNCHANGED <<handler, response>>
    /\ UNCHANGED <<request, files, threshold_value, total_size, previous, svars, dvars,
                   pvars>>

\* mutant: the file is pushed and counted before the total size is tested
ReadFieldCountedFirst ==
    /\ pc = "read_field"
    /\ field' = <<>>
    /\ LET part == field[1]
       IN IF "read_error" \in DOMAIN part
          THEN /\ Fail([error |-> "ReadError"])
               /\ UNCHANGED <<files, threshold_value, total_size>>
          ELSE IF part.name = "threshold"
          THEN LET parsed == parse_f32(trim(part.text))
               IN IF parsed = <<>>
                  THEN /\ Fail([error |-> "InvalidThreshold", value |-> part.text])
                       /\ UNCHANGED <<files, threshold_value, total_size>>
                  ELSE /\ threshold_value' = parsed
                       /\ pc' = "next_field"
                       /\ UNCHANGED <<files, total_size, handler, response>>
          ELSE IF part.data.len > MAX_FILE_SIZE
          THEN /\ Fail([error |-> "FileTooLarge", filename |-> part.file_name[1],
                        max |-> MAX_FILE_SIZE])
               /\ UNCHANGED <<files, threshold_value, total_size>>
          ELSE /\ total_size' = total_size + part.data.len
               /\ files' = Append(files, <<part.file_name[1], part.data>>)
               /\ IF Len(files') > MAX_FILES
                  THEN Fail([error |-> "TooManyFiles", max |-> MAX_FILES])
                  ELSE IF total_size' > MAX_TOTAL_SIZE
                  THEN Fail([error |-> "TotalSizeTooLarge", max |-> MAX_TOTAL_SIZE])
                  ELSE pc' = "next_field" /\ UNCHANGED <<handler, response>>
               /\ UNCHANGED threshold_value
    /\ UNCHANGED <<request, multipart, previous, svars, dvars, pvars>>

\* the rest of the turn: field.text().await or field.bytes().await, then the
\* parse of the threshold or the size and count tests of the file
ReadField ==
    /\ pc = "read_field"
    /\ field' = <<>>
    /\ LET part == field[1]
       IN IF "read_error" \in DOMAIN part
          THEN /\ Fail([error |-> "ReadError"])
               /\ UNCHANGED <<files, threshold_value, total_size>>
          ELSE IF part.name = "threshold"
          THEN LET parsed == parse_f32(trim(part.text))
               IN IF parsed = <<>>
                  THEN /\ Fail([error |-> "InvalidThreshold", value |-> part.text])
                       /\ UNCHANGED <<files, threshold_value, total_size>>
                  ELSE /\ threshold_value' = parsed
                       /\ pc' = "next_field"
                       /\ UNCHANGED <<files, total_size, handler, response>>
          ELSE IF part.data.len > MAX_FILE_SIZE
          THEN /\ Fail([error |-> "FileTooLarge", filename |-> part.file_name[1],
                        max |-> MAX_FILE_SIZE])
               /\ UNCHANGED <<files, threshold_value, total_size>>
          ELSE /\ total_size' = total_size + part.data.len
               /\ IF total_size' > MAX_TOTAL_SIZE
                  THEN /\ Fail([error |-> "TotalSizeTooLarge", max |-> MAX_TOTAL_SIZE])
                       /\ UNCHANGED <<files, threshold_value>>
                  ELSE /\ files' = Append(files, <<part.file_name[1], part.data>>)
                       /\ IF Len(files') > MAX_FILES
                          THEN Fail([error |-> "TooManyFiles", max |-> MAX_FILES])
                          ELSE pc' = "next_field" /\ UNCHANGED <<handler, response>>
                       /\ UNCHANGED threshold_value
    /\ UNCHANGED <<request, multipart, previous, svars, dvars, pvars>>

\* the end of extract_files_and_threshold: the default and the range test
EndOfFields ==
    /\ pc = "next_field"
    /\ multipart = <<>>
    /\ LET threshold_ == IF threshold_value = <<>> THEN DEFAULT_THRESHOLD
                         ELSE threshold_value[1]
       IN IF threshold_rejected(threshold_)
          THEN /\ Fail([error |-> "InvalidThresholdRange", value |-> threshold_])
               /\ UNCHANGED threshold
          ELSE /\ threshold' = threshold_
               /\ pc' = "extract"
               /\ UNCHANGED <<handler, response>>
    /\ UNCHANGED <<request, multipart, files, threshold_value, total_size, field,
                   previous,
                   documents, all_sentences, processed_sentences, sentence_tfs,
                   global_idf, sentence_vectors, matches, global_similarities, dvars,
                   pvars>>

\* the file count test, the extraction of every file, and the call of
\* analyze_sentence_similarity(&documents, threshold)
ExtractDocuments ==
    /\ pc = "extract"
    /\ IF Len(files) < MIN_FILES
       THEN /\ Fail([error |-> "NotEnoughFiles", min |-> MIN_FILES])
            /\ UNCHANGED documents
       ELSE LET results == [k \in 1..Len(files) |-> document_of(files[k])]
                error == first_error(results)
            IN IF error # <<>>
               THEN /\ Fail(error[1])
                    /\ UNCHANGED documents
               ELSE /\ documents' = results
                    /\ pc' = "flatten"
                    /\ UNCHANGED <<handler, response>>
    /\ UNCHANGED <<request, multipart, files, threshold_value, total_size, field,
                   previous,
                   threshold, all_sentences, processed_sentences, sentence_tfs,
                   global_idf, sentence_vectors, matches, global_similarities, dvars,
                   pvars>>

\* the sum of the documents' sentence counts
RECURSIVE total_sentences(_)
total_sentences(documents_) ==
    IF documents_ = <<>> THEN 0
    ELSE Len(documents_[1].sentences) + total_sentences(Tail(documents_))

\* the metadata and the Ok(Json(response)) (the elapsed time is not kept)
Respond ==
    /\ pc = "done"
    /\ handler = "running"
    /\ response' = <<[metadata |-> [documents_count |-> Len(documents),
                                    total_sentences |-> total_sentences(documents),
                                    threshold |-> threshold],
                      matches |-> matches,
                      global_similarity |-> global_similarities]>>
    /\ handler' = "returned"
    /\ pc' = "responded"
    /\ UNCHANGED <<request, multipart, files, threshold_value, total_size, field,
                   previous,
                   svars, dvars, pvars>>

NextUpload ==
    \/ NextField
    \/ ReadField
    \/ EndOfFields
    \/ ExtractDocuments
    \/ Flatten
    \/ ProcessSentences
    \/ ComputeSentenceTfs
    \/ ComputeGlobalIdf
    \/ VectorizeSentences
    \/ ComputeSentenceMatches
    \/ ComputeGlobalSimilarities
    \/ Respond

SpecUpload == InitUpload /\ [][NextUpload]_vars

\* ------------------------------------------------- validate_request
MAX_DOCUMENTS == 100
MIN_DOCUMENTS == 2
MAX_DOCUMENT_LENGTH == 50000

\* A character outside ASCII is written by its code point: "U+00E9" is the
\* one character e-acute, "U+00C9" its capital, "U+00A0" the no-break space.
NonAscii == {"U+00E9", "U+00C9", "U+00A0"}

\* char::len_utf8: the number of bytes of a character in a String
len_utf8(c) == IF c \in NonAscii THEN 2 ELSE 1

\* A document of a request is written as a sequence of runs: the run <<c, n>>
\* is the character c repeated n times (n > 0).
\* str::chars().count()
RECURSIVE chars_count(_)
chars_count(runs) ==
    IF runs = <<>> THEN 0 ELSE runs[1][2] + chars_count(Tail(runs))

\* str::len: the length of the UTF-8 encoding in bytes
RECURSIVE str_len(_)
str_len(runs) ==
    IF runs = <<>> THEN 0
    ELSE runs[1][2] * len_utf8(runs[1][1]) + str_len(Tail(runs))

\* str::trim().is_empty(): nothing but whitespace
trim_is_empty(runs) == \A i \in 1..Len(runs) : is_whitespace(runs[i][1])

\* Result<(), AppError>
Ok == [ok |-> TRUE]

\* mutant: the hundredth document is already one too many
validate_request_below_max(request_) ==
    LET documents_ == request_.documents
        n == Len(documents_)
        rejected == {i \in 1..n : \/ trim_is_empty(documents_[i])
                                  \/ str_len(documents_[i]) > MAX_DOCUMENT_LENGTH}
    IN IF n = 0 THEN [error |-> "NoDocuments"]
       ELSE IF n < MIN_DOCUMENTS THEN [error |-> "NotEnoughDocuments", count |-> n]
       ELSE IF n >= MAX_DOCUMENTS THEN [error |-> "TooManyDocuments", count |-> n]
       ELSE IF rejected = {} THEN Ok
       ELSE LET i == CHOOSE k \in rejected : \A l \in rejected : k <= l
            IN IF trim_is_empty(documents_[i])
               THEN [error |-> "EmptyDocument", index |-> i - 1]
               ELSE [error |-> "DocumentTooLong", index |-> i - 1,
                     max |-> MAX_DOCUMENT_LENGTH]

validate_request(request_) ==
    LET documents_ == request_.documents
        n == Len(documents_)
        rejected == {i \in 1..n : \/ trim_is_empty(documents_[i])
                                  \/ str_len(documents_[i]) > MAX_DOCUMENT_LENGTH}
    IN IF n = 0 THEN [error |-> "NoDocuments"]
       ELSE IF n < MIN_DOCUMENTS THEN [error |-> "NotEnoughDocuments", count |-> n]
       ELSE IF n > MAX_DOCUMENTS THEN [error |-> "TooManyDocuments", count |-> n]
       ELSE IF rejected = {} THEN Ok
       ELSE LET i == CHOOSE k \in rejected : \A l \in rejected : k <= l
            IN IF trim_is_empty(documents_[i])
               THEN [error |-> "EmptyDocument", index |-> i - 1]
               ELSE [error |-> "DocumentTooLong", index |-> i - 1,
                     max |-> MAX_DOCUMENT_LENGTH]

\* ---------------------------------------------------- request inputs
MaxRequestDocuments == 3

\* "a b"; a blank document; 50,000 and 50,001 ASCII letters; 25,000 and
\* 25,001 two-byte letters (50,000 and 50,002 bytes)
RequestPool ==
    {<<<<"a", 1>>, <<" ", 1>>, <<"b", 1>>>>,
     <<<<" ", 1>>, <<"\t", 1>>>>,
     <<<<"a", MAX_DOCUMENT_LENGTH>>>>,
     <<<<"a", MAX_DOCUMENT_LENGTH + 1>>>>,
     <<<<"U+00E9", MAX_DOCUMENT_LENGTH \div 2>>>>,
     <<<<"U+00E9", MAX_DOCUMENT_LENGTH \div 2 + 1>>>>}

\* short requests over the pool, and requests of 100 and 101 documents all
\* "a b" or with a blank document last
AnalyzeRequests ==
    {[documents |-> ds] :
        ds \in UNION {[1..n -> RequestPool] : n \in 0..MaxRequestDocuments}
               \cup {[i \in 1..n |-> IF i = n /\ blank
                                     THEN <<<<" ", 1>>, <<"\t", 1>>>>
                                     ELSE <<<<"a", 1>>, <<" ", 1>>, <<"b", 1>>>>] :
                        n \in {MAX_DOCUMENTS, MAX_DOCUMENTS + 1}, blank \in BOOLEAN}}

InitValidate ==
    /\ pc = "validate"
    /\ request \in AnalyzeRequests
    /\ multipart = <<>>
    /\ files = <<>>
    /\ threshold_value = <<>>
    /\ total_size = 0
    /\ field = <<>>
    /\ handler = "idle"
    /\ response = <<>>
    /\ previous = <<>>
    /\ ParIdle
    /\ SentenceIdle
    /\ DocumentIdle

\* validate_request(&request) returns
ValidateRequest ==
    /\ pc = "validate"
    /\ response' = <<validate_request(request)>>
    /\ pc' = "validated"
    /\ UNCHANGED <<request, multipart, files, threshold_value, total_size, field,
                   handler,
                   previous, svars, dvars, pvars>>

NextValidate == ValidateRequest

SpecValidate == InitValidate /\ [][NextValidate]_vars

\* ---------------------------------------------------- normalize_text
MaxTextLen == 4

\* a letter of each case, a digit, a space, a punctuation mark, the capital
\* e-acute and the no-break space
TextAlphabet == {"a", "B", "1", " ", ",", "U+00C9", "U+00A0"}

TextInputs == UNION {[1..n -> TextAlphabet] : n \in 0..MaxTextLen}

InitNormalize ==
    /\ pc = "normalize"
    /\ request \in TextInputs
    /\ multipart = <<>>
    /\ files = <<>>
    /\ threshold_value = <<>>
    /\ total_size = 0
    /\ field = <<>>
    /\ handler = "idle"
    /\ response = <<>>
    /\ previous = <<>>
    /\ ParIdle
    /\ SentenceIdle
    /\ DocumentIdle

\* normalize_text(text) returns
NormalizeText ==
    /\ pc = "normalize"
    /\ response' = <<normalize_text(request)>>
    /\ pc' = "normalized"
    /\ UNCHANGED <<request, multipart, files, threshold_value, total_size, field,
                   handler,
                   previous, svars, dvars, pvars>>

\* normalize_text is called on what it returned
NormalizeAgain ==
    /\ pc = "normalized"
    /\ response' = Append(response, normalize_text(response[1]))
    /\ pc' = "normalized_twice"
    /\ UNCHANGED <<request, multipart, files, threshold_value, total_size, field,
                   handler,
                   previous, svars, dvars, pvars>>

NextNormalize ==
    \/ NormalizeText
    \/ NormalizeAgain

SpecNormalize == InitNormalize /\ [][NextNormalize]_vars

\* -------------------------------------------------------- compute_tf
MaxTokens == 5

\* the tokens "a", "b" and "ab"
TokenPool == {<<"a">>, <<"b">>, <<"a", "b">>}

TokenInputs == UNION {[1..n -> TokenPool] : n \in 0..MaxTokens}

InitTf ==
    /\ pc = "compute_tf"
    /\ request \in TokenInputs
    /\ multipart = <<>>
    /\ files = <<>>
    /\ threshold_value = <<>>
    /\ total_size = 0
    /\ field = <<>>
    /\ handler = "idle"
    /\ response = <<>>
    /\ previous = <<>>
    /\ ParIdle
    /\ SentenceIdle
    /\ DocumentIdle

\* compute_tf(tokens) returns
ComputeTf ==
    /\ pc = "compute_tf"
    /\ response' = <<compute_tf(request)>>
    /\ pc' = "tf_computed"
    /\ UNCHANGED <<request, multipart, files, threshold_value, total_size, field,
                   handler,
                   previous, svars, dvars, pvars>>

NextTf == ComputeTf

SpecTf == InitTf /\ [][NextTf]_vars

\* ------------------------------------------------- cosine_similarity
MaxDim == 2

\* -1.5, -1.0, -0.5, 0.0, 0.5, 1.0 and 1.5
ComponentPool ==
    {<<-12582912, -23>>, <<-Two23, -23>>, <<-Two23, -24>>, F32Zero, <<Two23, -24>>, F32One,
     <<12582912, -23>>}

DenseVectors == UNION {[1..n -> ComponentPool] : n \in 0..MaxDim}

InitCosine ==
    /\ pc = "cosine"
    /\ request \in DenseVectors \X DenseVectors
    /\ multipart = <<>>
    /\ files = <<>>
    /\ threshold_value = <<>>
    /\ total_size = 0
    /\ field = <<>>
    /\ handler = "idle"
    /\ response = <<>>
    /\ previous = <<>>
    /\ ParIdle
    /\ SentenceIdle
    /\ DocumentIdle

\* cosine_similarity(vec_a, vec_b) returns
CosineSimilarity ==
    /\ pc = "cosine"
    /\ response' = <<cosine_similarity(request[1], request[2])>>
    /\ pc' = "cosine_computed"
    /\ UNCHANGED <<request, multipart, files, threshold_value, total_size, field,
                   handler,
                   previous, svars, dvars, pvars>>

NextCosine == CosineSimilarity

SpecCosine == InitCosine /\ [][NextCosine]_vars

\* ------------------------- the matrix of a call, the two orders of a pair
\* either analyze_documents builds the matrix of its documents, or
\* cosine_similarity is called on a pair of vectors
SpecSymmetry == (InitDoc \/ InitCosine) /\ [][NextDoc \/ NextCosine]_vars

\* ------------------------------------------- the parallel stages
\* A par_iter().map(..).collect() hands one task per item to the worker
\* pool; the tasks start and finish in any order and collect() returns, with
\* the results by item position, when every task has finished.
ParallelStages ==
    {"normalize", "tokenize", "doc_tf", "doc_vectorize", "matrix",
     "process", "tf", "vectorize"}

\* mutant: the sentence vectors are built before the global IDF is computed
stage_after_idf_last(stage) ==
    CASE stage = "normalize" -> "tokenize"
      [] stage = "tokenize" -> "doc_tf"
      [] stage = "doc_tf" -> "doc_idf"
      [] stage = "doc_idf" -> "vocabulary"
      [] stage = "doc_vectorize" -> "matrix"
      [] stage = "matrix" -> "done"
      [] stage = "process" -> "tf"
      [] stage = "tf" -> "vectorize"
      [] stage = "vectorize" -> "idf"
      [] stage = "idf" -> "matches"

\* the statement that follows a stage in the two pipeline functions
stage_after(stage) ==
    CASE stage = "normalize" -> "tokenize"
      [] stage = "tokenize" -> "doc_tf"
      [] stage = "doc_tf" -> "doc_idf"
      [] stage = "doc_idf" -> "vocabulary"
      [] stage = "doc_vectorize" -> "matrix"
      [] stage = "matrix" -> "done"
      [] stage = "process" -> "tf"
      [] stage = "tf" -> "idf"
      [] stage = "idf" -> "vectorize"
      [] stage = "vectorize" -> "matches"

\* the collection a parallel stage iterates over
stage_items(stage) ==
    CASE stage = "normalize" -> docs
      [] stage = "tokenize" -> normalized
      [] stage = "doc_tf" -> tokenized
      [] stage = "doc_vectorize" -> tfs
      [] stage = "matrix" -> vectors
      [] stage = "process" -> all_sentences
      [] stage = "tf" -> processed_sentences
      [] stage = "vectorize" -> sentence_tfs

\* what the closure of a stage can return for the k-th item (the map built
\* by compute_tfidf_vector comes with one of its iteration orders)
task_results(stage, k) ==
    CASE stage = "normalize" -> {normalize_text(docs[k])}
      [] stage = "tokenize" -> {tokenize(normalized[k])}
      [] stage = "doc_tf" -> {compute_tf(tokenized[k])}
      [] stage = "doc_vectorize" -> {vectorize(tfs[k], idf, vocabulary)}
      [] stage = "matrix" -> {[j \in 1..Len(vectors) |-> matrix_cell(vectors, k, j)]}
      [] stage = "process" ->
             {<<all_sentences[k][1], all_sentences[k][2], all_sentences[k][3],
                tokenize(normalize_text(all_sentences[k][3]))>>}
      [] stage = "tf" ->
             {<<processed_sentences[k][1], processed_sentences[k][2],
                processed_sentences[k][3], compute_tf(processed_sentences[k][4])>>}
      [] stage = "vectorize" ->
             {[doc_index |-> sentence_tfs[k][1],
               sentence_index |-> sentence_tfs[k][2],
               vector |-> entries] :
                  entries \in IterationOrders(
                      compute_tfidf_vector(sentence_tfs[k][4], global_idf))}

\* mutant: a result goes to the first free position, in order of completion
store_in_completion_order(slots_, k, result) ==
    LET free == CHOOSE i \in 1..Len(slots_) :
                    slots_[i] = <<>> /\ \A j \in 1..(i - 1) : slots_[j] # <<>>
    IN [slots_ EXCEPT ![free] = <<result>>]

\* the indexed collect: the result of the k-th task goes to position k
store(slots_, k, result) == [slots_ EXCEPT ![k] = <<result>>]

\* ------------------------------------------------ parallel inputs
MaxParItems == 3

\* "A b." and "b"
ParSentencePool == {<<"A", " ", "b", ".">>, <<"b">>}

\* "a b", "c" and "B, A!"
ParDocumentPool == {<<"a", " ", "b">>, <<"c">>, <<"B", ",", " ", "A", "!">>}

ParSentenceLists == UNION {[1..k -> ParSentencePool] : k \in 0..MaxParItems}

\* no, one or two documents with at most MaxParItems sentences together
ParSentenceInputs ==
    {[d \in 1..Len(sls) |-> [filename |-> FileNames[d], sentences |-> sls[d]]] :
        sls \in {<<>>}
                \cup {<<a>> : a \in ParSentenceLists}
                \cup {ab \in ParSentenceLists \X ParSentenceLists :
                         Len(ab[1]) + Len(ab[2]) <= MaxParItems}}

ParDocumentInputs == UNION {[1..n -> ParDocumentPool] : n \in 0..MaxParItems}

\* ------------------------------- the pipelines, task by task
InitPar ==
    /\ \/ /\ pc = "flatten"
          /\ documents \in ParSentenceInputs
          /\ docs = <<>>
       \/ /\ pc = "labels"
          /\ documents = <<>>
          /\ docs \in ParDocumentInputs
    /\ threshold = F32Zero
    /\ all_sentences = <<>>
    /\ processed_sentences = <<>>
    /\ sentence_tfs = <<>>
    /\ global_idf = EmptyMap
    /\ sentence_vectors = <<>>
    /\ matches = <<>>
    /\ global_similarities = <<>>
    /\ labels = <<>>
    /\ normalized = <<>>
    /\ tokenized = <<>>
    /\ tfs = <<>>
    /\ idf = EmptyMap
    /\ vocabulary = <<>>
    /\ vectors = <<>>
    /\ matrix = <<>>
    /\ OtherIdle

\* par_iter() / into_par_iter(): one task per item of the stage
Fork ==
    /\ pc \in ParallelStages
    /\ tasks = <<>>
    /\ tasks' = [k \in 1..Len(stage_items(pc)) |-> "pending"]
    /\ slots' = [k \in 1..Len(stage_items(pc)) |-> <<>>]
    /\ UNCHANGED <<pc, svars, dvars, previous, uvars, idf_calls>>

\* a worker takes a task
StartTask ==
    /\ pc \in ParallelStages
    /\ \E k \in 1..Len(tasks) :
          /\ tasks[k] = "pending"
          /\ tasks' = [tasks EXCEPT ![k] = "running"]
    /\ UNCHANGED <<pc, svars, dvars, previous, uvars, slots, idf_calls>>

\* a worker finishes a task: the closure's result is stored
FinishTask ==
    /\ pc \in ParallelStages
    /\ \E k \in 1..Len(tasks) :
          /\ tasks[k] = "running"
          /\ \E result \in task_results(pc, k) : slots' = store(slots, k, result)
          /\ tasks' = [tasks EXCEPT ![k] = "done"]
    /\ UNCHANGED <<pc, svars, dvars, previous, uvars, idf_calls>>

\* collect() returns once every task has finished (an into_par_iter()
\* consumes the collection it iterated over)
Join ==
    /\ pc \in ParallelStages
    /\ tasks # <<>>
    /\ \A k \in 1..Len(tasks) : tasks[k] = "done"
    /\ LET collected == [k \in 1..Len(slots) |-> slots[k][1]]
       IN /\ normalized' = IF pc = "normalize" THEN collected ELSE normalized
          /\ tokenized' = IF pc = "tokenize" THEN collected ELSE tokenized
          /\ tfs' = IF pc = "doc_tf" THEN collected ELSE tfs
          /\ vectors' = IF pc = "doc_vectorize" THEN collected ELSE vectors
          /\ matrix' = IF pc = "matrix" THEN collected ELSE matrix
          /\ processed_sentences' = IF pc = "process" THEN collected
                                    ELSE IF pc = "tf" THEN <<>>
                                    ELSE processed_sentences
          /\ sentence_tfs' = IF pc = "tf" THEN collected
                             ELSE IF pc = "vectorize" THEN <<>>
                             ELSE sentence_tfs
          /\ sentence_vectors' = IF pc = "vectorize" THEN collected
                                 ELSE sentence_vectors
    /\ pc' = stage_after(pc)
    /\ tasks' = <<>>
    /\ slots' = <<>>
    /\ UNCHANGED <<documents, threshold, all_sentences, global_idf, matches,
                   global_similarities, docs, labels, idf, vocabulary,
                   previous, uvars, idf_calls>>

\* stage 4 of analyze_documents, on the calling thread
ComputeIdfCall ==
    /\ pc = "doc_idf"
    /\ idf' = compute_idf(tfs)
    /\ idf_calls' = idf_calls + 1
    /\ pc' = stage_after(pc)
    /\ UNCHANGED <<docs, labels, normalized, tokenized, tfs, vocabulary, vectors, matrix,
                   svars, previous, uvars, tasks, slots>>

\* step 4 of analyze_sentence_similarity, on the calling thread
ComputeGlobalIdfCall ==
    /\ pc = "idf"
    /\ LET tfs_only == [k \in 1..Len(sentence_tfs) |-> sentence_tfs[k][4]]
       IN global_idf' = compute_idf(tfs_only)
    /\ idf_calls' = idf_calls + 1
    /\ pc' = stage_after(pc)
    /\ UNCHANGED <<documents, threshold, all_sentences, processed_sentences, sentence_tfs,
                   sentence_vectors, matches, global_similarities, dvars,
                   previous, uvars, tasks, slots>>

NextPar ==
    \/ Flatten
    \/ GenerateLabels
    \/ Fork
    \/ StartTask
    \/ FinishTask
    \/ Join
    \/ ComputeIdfCall
    \/ BuildVocabulary
    \/ ComputeGlobalIdfCall
    \/ ComputeSentenceMatches
    \/ ComputeGlobalSimilarities

SpecPar == InitPar /\ [][NextPar]_vars

\* ------------------------------- the same documents, a higher threshold
\* the thresholds of the two calls: 0.0, 0.5 and 1.0
ThresholdSteps == {F32Zero, <<Two23, -24>>, F32One}

InitThresholds ==
    /\ pc = "flatten"
    /\ documents \in UNION RerunSentenceInputs
    /\ threshold \in ThresholdSteps
    /\ all_sentences = <<>>
    /\ processed_sentences = <<>>
    /\ sentence_tfs = <<>>
    /\ global_idf = EmptyMap
    /\ sentence_vectors = <<>>
    /\ matches = <<>>
    /\ global_similarities = <<>>
    /\ DocumentIdle
    /\ OtherIdle

\* the caller keeps what the call returned for its threshold and calls
\* analyze_sentence_similarity again with the same documents and a threshold
\* that is not lower
RaiseThreshold ==
    /\ pc = "done"
    /\ previous = <<>>
    /\ previous' = <<[matches |-> matches, global_similarities |-> global_similarities,
                      threshold |-> threshold]>>
    /\ threshold' \in {t \in ThresholdSteps : F32Le(threshold, t)}
    /\ pc' = "flatten"
    /\ all_sentences' = <<>>
    /\ processed_sentences' = <<>>
    /\ sentence_tfs' = <<>>
    /\ global_idf' = EmptyMap
    /\ sentence_vectors' = <<>>
    /\ matches' = <<>>
    /\ global_similarities' = <<>>
    /\ UNCHANGED <<documents, dvars, uvars, pvars>>

NextThresholds ==
    \/ Flatten
    \/ ProcessSentences
    \/ ComputeSentenceTfs
    \/ ComputeGlobalIdf
    \/ VectorizeSentences
    \/ ComputeSentenceMatches
    \/ ComputeGlobalSimilarities
    \/ RaiseThreshold

SpecThresholds == InitThresholds /\ [][NextThresholds]_vars

\* ------------------------------------------- uploads at the limits
MaxLimitFields == 6

\* e.txt of exactly 10 MiB, n.TXT of 2 bytes, b.pdf of 10 MiB + 1 byte, and a
\* threshold field with the text "abc"
LimitFields ==
    {[name |-> "files", file_name |-> <<(<<"e", ".", "t", "x", "t">>)>>,
      data |-> [len |-> MAX_FILE_SIZE, decodes |-> TRUE, content |-> <<"b">>]],
     [name |-> "files", file_name |-> <<(<<"n", ".", "T", "X", "T">>)>>,
      data |-> [len |-> 2, decodes |-> TRUE, content |-> <<"b", "!">>]],
     [name |-> "files", file_name |-> <<(<<"b", ".", "p", "d", "f">>)>>,
      data |-> [len |-> MAX_FILE_SIZE + 1, decodes |-> TRUE, content |-> <<"b">>]],
     [name |-> "threshold", text |-> <<"a", "b", "c">>]}

LimitInputs == UNION {[1..n -> LimitFields] : n \in 0..MaxLimitFields}

InitUploadLimits ==
    /\ pc = "next_field"
    /\ request \in LimitInputs
    /\ multipart = request
    /\ files = <<>>
    /\ threshold_value = <<>>
    /\ total_size = 0
    /\ field = <<>>
    /\ handler = "running"
    /\ response = <<>>
    /\ previous = <<>>
    /\ ParIdle
    /\ SentenceIdle
    /\ DocumentIdle

SpecUploadLimits == InitUploadLimits /\ [][NextUpload]_vars

\* ====================================================== properties
\* helpers over the state of a finished (or finishing) sentence analysis
Finished == pc = "done"

DocIndexOf(name) == CHOOSE d \in 1..Len(documents) : documents[d].filename = name

SentenceCount(d) == Len(documents[d].sentences)

\* the similarity of the i-th and j-th flattened sentences
PairSimilarity(i, j) ==
    compute_cosine_similarity(sentence_vectors[i].vector, sentence_vectors[j].vector)

\* match m reports the flattened sentences i (source) and j (target)
Reports(m, i, j) ==
    /\ m.source_doc = documents[sentence_vectors[i].doc_index + 1].filename
    /\ m.source_sentence_index = sentence_vectors[i].sentence_index
    /\ m.target_doc = documents[sentence_vectors[j].doc_index + 1].filename
    /\ m.target_sentence_index = sentence_vectors[j].sentence_index

CrossPairs ==
    {p \in (1..Len(sentence_vectors)) \X (1..Len(sentence_vectors)) :
        /\ p[1] < p[2]
        /\ sentence_vectors[p[1]].doc_index # sentence_vectors[p[2]].doc_index}

SameDocPairs ==
    {p \in (1..Len(sentence_vectors)) \X (1..Len(sentence_vectors)) :
        /\ p[1] < p[2]
        /\ sentence_vectors[p[1]].doc_index = sentence_vectors[p[2]].doc_index}

\* C1: no returned match pairs two sentences of the same document
C1_NoSameDocumentMatch ==
    \A k \in 1..Len(matches) :
        DocIndexOf(matches[k].source_doc) # DocIndexOf(matches[k].target_doc)

\* a finished run with matches in which a same-document pair of identical
\* sentences reaches the threshold
C1_Witness ==
    /\ Finished
    /\ matches # <<>>
    /\ \E p \in SameDocPairs :
          /\ documents[sentence_vectors[p[1]].doc_index + 1].sentences[
                 sentence_vectors[p[1]].sentence_index + 1]
             = documents[sentence_vectors[p[2]].doc_index + 1].sentences[
                 sentence_vectors[p[2]].sentence_index + 1]
          /\ F32Le(F32One, PairSimilarity(p[1], p[2]))
          /\ F32Le(threshold, PairSimilarity(p[1], p[2]))

\* C2: a cross-document pair is returned iff its similarity >= threshold,
\* exactly once and with that similarity; nothing else is returned
C2_MatchIffAtLeastThreshold ==
    pc \in {"global", "done"} =>
        /\ \A p \in CrossPairs :
              F32Le(threshold, PairSimilarity(p[1], p[2]))
              <=> \E k \in 1..Len(matches) :
                     /\ Reports(matches[k], p[1], p[2])
                     /\ matches[k].similarity = PairSimilarity(p[1], p[2])
        /\ Len(matches) =
               Cardinality({p \in CrossPairs : F32Le(threshold, PairSimilarity(p[1], p[2]))})
        /\ threshold = F32Zero => Len(matches) = Cardinality(CrossPairs)

\* threshold 0 and a returned pair with a token-less sentence, whose
\* similarity 0 equals the threshold
C2_Witness ==
    /\ Finished
    /\ threshold = F32Zero
    /\ \E p \in CrossPairs :
          /\ sentence_vectors[p[1]].vector = <<>>
          /\ sentence_vectors[p[2]].vector # <<>>
          /\ PairSimilarity(p[1], p[2]) = threshold
          /\ \E k \in 1..Len(matches) : Reports(matches[k], p[1], p[2])

\* the flattened positions of the sentences of document a (0-based a)
PositionsOf(a) ==
    SelectSeq([k \in 1..Len(sentence_vectors) |-> k],
              LAMBDA k : sentence_vectors[k].doc_index = a)

\* f32 mean of the similarities of all |a| * |b| sentence pairs of a and b
MeanSimilarity(a, b) ==
    LET ia == PositionsOf(a)
        ib == PositionsOf(b)
        sims == [k \in 1..(Len(ia) * Len(ib)) |->
                    PairSimilarity(ia[((k - 1) \div Len(ib)) + 1],
                                   ib[((k - 1) % Len(ib)) + 1])]
    IN F32Div(F32Sum(sims), F32FromInt(SentenceCount(a + 1) * SentenceCount(b + 1)))

\* document pairs a < b (1-based) that both have a sentence
NonEmptyDocPairs ==
    {p \in (1..Len(documents)) \X (1..Len(documents)) :
        p[1] < p[2] /\ SentenceCount(p[1]) >= 1 /\ SentenceCount(p[2]) >= 1}

RecordsOf(a, b) ==
    {k \in 1..Len(global_similarities) :
        /\ global_similarities[k].doc_a = documents[a].filename
        /\ global_similarities[k].doc_b = documents[b].filename}

\* the score of documents a < b is the mean similarity of all their sentence
\* pairs: those below the threshold and those with a token-less sentence too
MeanOfAllPairs ==
    Finished =>
        \A p \in NonEmptyDocPairs :
            \E k \in RecordsOf(p[1], p[2]) :
                global_similarities[k].score = MeanSimilarity(p[1] - 1, p[2] - 1)

\* a later call with the same documents and another threshold returns the
\* global similarity list the earlier call returned
SameGlobalListForEveryThreshold ==
    (Finished /\ previous # <<>> /\ previous[1].threshold # threshold) =>
        global_similarities = previous[1].global_similarities

\* C3: the score of documents a < b is the mean similarity of all their
\* sentence pairs, whatever the threshold, and therefore the global
\* similarity list of a call is the same for every threshold value.
C3_GlobalScoreIsMeanOfAllPairs ==
    /\ MeanOfAllPairs
    /\ SameGlobalListForEveryThreshold

\* a scored document pair with several sentence pairs, one below the
\* threshold, one reaching it and one with a token-less sentence
C3_Witness ==
    /\ Finished
    /\ \E p \in NonEmptyDocPairs :
          /\ SentenceCount(p[1]) * SentenceCount(p[2]) >= 2
          /\ \E k \in RecordsOf(p[1], p[2]) :
                global_similarities[k].score # F32Zero
          /\ \E q \in CrossPairs :
                /\ sentence_vectors[q[1]].doc_index = p[1] - 1
                /\ sentence_vectors[q[2]].doc_index = p[2] - 1
                /\ F32Lt(PairSimilarity(q[1], q[2]), threshold)
                /\ sentence_vectors[q[1]].vector = <<>> \/ sentence_vectors[q[2]].vector = <<>>
          /\ \E q \in CrossPairs :
                /\ sentence_vectors[q[1]].doc_index = p[1] - 1
                /\ sentence_vectors[q[2]].doc_index = p[2] - 1
                /\ F32Le(threshold, PairSimilarity(q[1], q[2]))

AllHaveSentences == \A d \in 1..Len(documents) : SentenceCount(d) >= 1

\* C4: n documents with sentences give n(n-1)/2 records, one per pair a < b
C4_OneRecordPerDocumentPair ==
    (Finished /\ AllHaveSentences) =>
        /\ 2 * Len(global_similarities) = Len(documents) * (Len(documents) - 1)
        /\ \A a, b \in 1..Len(documents) :
              a < b => Cardinality(RecordsOf(a, b)) = 1
        /\ \A k \in 1..Len(global_similarities) :
              DocIndexOf(global_similarities[k].doc_a)
                  < DocIndexOf(global_similarities[k].doc_b)

\* three documents with sentences and their three records
C4_Witness ==
    /\ Finished
    /\ Len(documents) = 3
    /\ AllHaveSentences
    /\ Len(global_similarities) = 3

\* C5: a pair with a sentence-less document has no record; the other pairs
\* and matches keep their own labels and texts; no sentences, no output
C5_EmptyDocumentPairOmitted ==
    Finished =>
        /\ \A k \in 1..Len(global_similarities) :
              /\ SentenceCount(DocIndexOf(global_similarities[k].doc_a)) >= 1
              /\ SentenceCount(DocIndexOf(global_similarities[k].doc_b)) >= 1
        /\ Len(global_similarities) = Cardinality(NonEmptyDocPairs)
        /\ \A p \in NonEmptyDocPairs : RecordsOf(p[1], p[2]) # {}
        /\ \A k \in 1..Len(matches) :
              LET m == matches[k]
                  sd == documents[DocIndexOf(m.source_doc)].sentences
                  td == documents[DocIndexOf(m.target_doc)].sentences
              IN /\ m.source_sentence_index + 1 \in 1..Len(sd)
                 /\ m.target_sentence_index + 1 \in 1..Len(td)
                 /\ m.source_sentence = sd[m.source_sentence_index + 1]
                 /\ m.target_sentence = td[m.target_sentence_index + 1]
        /\ (\A d \in 1..Len(documents) : SentenceCount(d) = 0)
              => (matches = <<>> /\ global_similarities = <<>>)

\* a sentence-less first document followed by two documents that match
C5_Witness ==
    /\ Finished
    /\ Len(documents) = 3
    /\ SentenceCount(1) = 0
    /\ SentenceCount(2) >= 1
    /\ SentenceCount(3) >= 1
    /\ Len(global_similarities) = 1
    /\ global_similarities[1].doc_a = documents[2].filename
    /\ global_similarities[1].doc_b = documents[3].filename
    /\ matches # <<>>

\* C6: both returned lists are in non-increasing score order
C6_SortedDescending ==
    /\ \A k \in 1..(Len(matches) - 1) :
          ~F32Lt(matches[k].similarity, matches[k + 1].similarity)
    /\ \A k \in 1..(Len(global_similarities) - 1) :
          ~F32Lt(global_similarities[k].score, global_similarities[k + 1].score)

\* both lists hold different scores and neither was produced in sorted order
C6_Witness ==
    /\ Finished
    /\ matches # matches_from(sentence_vectors, documents, threshold, 1)
    /\ global_similarities
           # global_sims_from(sentence_vectors, documents, doc_pairs(Len(documents)))
    /\ F32Lt(matches[Len(matches)].similarity, matches[1].similarity)
    /\ F32Lt(global_similarities[Len(global_similarities)].score,
             global_similarities[1].score)

\* ------------------------------------------- analyze_documents claims
\* the multiset of document k's tokens: token -> number of occurrences
TokenBag(k) ==
    [t \in {tokenized[k][i] : i \in 1..Len(tokenized[k])} |-> Count(tokenized[k], t)]

TokenSet(k) == {tokenized[k][i] : i \in 1..Len(tokenized[k])}

\* C7: every diagonal cell of a non-empty analysis is exactly 1.0
C7_DiagonalIsOne ==
    (Finished /\ docs # <<>>) =>
        /\ Len(matrix) = Len(docs)
        /\ \A i \in 1..Len(docs) : matrix[i][i] = F32One

\* a finished analysis holding a document whose vector is all zeros and a
\* document whose measured self-similarity is not 1.0
C7_Witness ==
    /\ Finished
    /\ \E i \in 1..Len(docs) :
          /\ tokenized[i] = <<>>
          /\ \A x \in 1..Len(vectors[i]) : vectors[i][x] = F32Zero
          /\ vectors[i] # <<>>
          /\ matrix[i][i] = F32One
    /\ \E i \in 1..Len(docs) :
          /\ cosine_similarity(vectors[i], vectors[i]) \notin {F32Zero, F32One}
          /\ matrix[i][i] = F32One

\* C8: the matrix analyze_documents returns is symmetric, and for every two
\* vectors of equal length, whatever the signs of their components,
\* cosine_similarity returns the same value for both orders of its arguments.
C8_MatrixSymmetric ==
    /\ Finished =>
           \A i, j \in 1..Len(matrix) : matrix[i][j] = matrix[j][i]
    /\ (pc = "cosine_computed" /\ Len(request[1]) = Len(request[2])) =>
           response[1] = cosine_similarity(request[2], request[1])

\* two different vectors of two components each, one of them with a negative
\* component, whose similarity lies strictly between -1 and 0
C8_Witness ==
    /\ pc = "cosine_computed"
    /\ Len(request[1]) = 2
    /\ Len(request[2]) = 2
    /\ request[1] # request[2]
    /\ \E x \in 1..2 : F32IsNegative(request[1][x]) \/ F32IsNegative(request[2][x])
    /\ F32Lt(<<-Two23, -23>>, response[1])
    /\ F32Lt(response[1], F32Zero)
    /\ cosine_similarity(request[2], request[1]) = response[1]

\* C9 as stated: documents with identical token multisets have similarity 1.0
C9_IdenticalTokensGiveOne ==
    Finished =>
        \A i, j \in 1..Len(matrix) :
            (i # j /\ TokenBag(i) = TokenBag(j)) => matrix[i][j] = F32One

\* |x - 1.0| < 0.001 in f32, the tolerance of the repository's tests
\* (x - 1.0 is exact for x in [0.5, 2]); 0.001f32 = 8589935 * 2^-33, which
\* is no multiple of 2^9, so d * 2^k < 8589935 iff d <= 8589935 \div 2^k
ApproxOne(x) ==
    \/ x[2] = -23 /\ x[1] - Two23 <= 8589935 \div (2^10)
    \/ x[2] = -24 /\ Two24 - x[1] <= 8589935 \div (2^9)

\* C9 amended: documents with identical non-empty token multisets have
\* similarity 1.0 within 0.001; two token-less documents have 0.0
C9_IdenticalTokensGiveAboutOne ==
    Finished =>
        \A i, j \in 1..Len(matrix) :
            (i # j /\ TokenBag(i) = TokenBag(j)) =>
                IF tokenized[i] = <<>> THEN matrix[i][j] = F32Zero
                ELSE ApproxOne(matrix[i][j])

\* three documents: two differ in case, punctuation and word order only,
\* the third has other tokens; the measured similarity is not exactly 1.0
C9_Witness ==
    /\ Finished
    /\ Len(docs) = 3
    /\ \E i, j, k \in 1..3 :
          /\ i # j /\ i # k /\ j # k
          /\ docs[i] # docs[j]
          /\ tokenized[i] # <<>>
          /\ TokenBag(i) = TokenBag(j)
          /\ TokenSet(k) \ TokenSet(i) # {}
          /\ ApproxOne(matrix[i][j])
          /\ matrix[i][j] # F32One

\* C10: documents without a common token have similarity 0.0
C10_DisjointTokensGiveZero ==
    Finished =>
        \A i, j \in 1..Len(matrix) :
            (i # j /\ TokenSet(i) \cap TokenSet(j) = {}) => matrix[i][j] = F32Zero

\* a token-less document next to a document with tokens, and two documents
\* with tokens but none in common
C10_Witness ==
    /\ Finished
    /\ \E i, j \in 1..Len(matrix) :
          /\ i # j
          /\ TokenSet(i) = {} /\ TokenSet(j) # {}
          /\ matrix[i][j] = F32Zero /\ matrix[j][i] = F32Zero
    /\ \E i, j \in 1..Len(matrix) :
          /\ i # j
          /\ TokenSet(i) # {} /\ TokenSet(j) # {}
          /\ TokenSet(i) \cap TokenSet(j) = {}
          /\ matrix[i][j] = F32Zero

\* ------------------------------------------------ identical sentences
\* the multiset of tokens of the flattened sentence at position i
SentenceTokens(i) ==
    tokenize(normalize_text(
        documents[sentence_vectors[i].doc_index + 1].sentences[
            sentence_vectors[i].sentence_index + 1]))

SentenceBag(i) ==
    LET toks == SentenceTokens(i)
    IN [t \in {toks[k] : k \in 1..Len(toks)} |-> Count(toks, t)]

\* cross-document pairs of sentences with the same non-empty token multiset
IdenticalCrossPairs ==
    {p \in CrossPairs : SentenceTokens(p[1]) # <<>> /\ SentenceBag(p[1]) = SentenceBag(p[2])}

IsMatched(p) == \E k \in 1..Len(matches) : Reports(matches[k], p[1], p[2])

\* the f32 values of the literals 0.9 and 0.999
F32PointNine == <<15099494, -24>>
F32NearOne == <<16760439, -24>>

\* C11 as stated: sentences of different documents with the same non-empty
\* token multiset have similarity 1 and are returned as a match
C11_IdenticalSentencesGiveOne ==
    Finished =>
        \A p \in IdenticalCrossPairs :
            PairSimilarity(p[1], p[2]) = F32One /\ IsMatched(p)

\* C11 amended: such sentences have similarity 1 within 0.001 and are
\* returned for every threshold up to 0.999; two documents of one identical
\* sentence each give, at threshold 0.7, a first match above 0.9
C11_IdenticalSentencesGiveAboutOne ==
    Finished =>
        /\ \A p \in IdenticalCrossPairs :
              /\ ApproxOne(PairSimilarity(p[1], p[2]))
              /\ F32Le(threshold, F32NearOne) => IsMatched(p)
        /\ (/\ Len(documents) = 2
            /\ SentenceCount(1) = 1
            /\ SentenceCount(2) = 1
            /\ documents[1].sentences = documents[2].sentences
            /\ SentenceTokens(1) # <<>>
            /\ threshold = <<11744051, -24>>)
           => (matches # <<>> /\ F32Lt(F32PointNine, matches[1].similarity))

\* two documents of one identical sentence each at threshold 0.7: the match
\* is returned first, and its measured similarity is not exactly 1.0
C11_Witness ==
    /\ Finished
    /\ Len(documents) = 2
    /\ SentenceCount(1) = 1
    /\ SentenceCount(2) = 1
    /\ documents[1].sentences = documents[2].sentences
    /\ threshold = <<11744051, -24>>
    /\ IdenticalCrossPairs # {}
    /\ matches # <<>>
    /\ F32Lt(F32PointNine, matches[1].similarity)
    /\ matches[1].similarity # F32One

\* ---------------------------------------------------------- determinism
\* C12: a second call with the same arguments returns what the first call
\* returned: the same matrix and labels, the same match and global lists
C12_SecondRunIdentical ==
    (Finished /\ previous # <<>>) =>
        IF request = <<"analyze_documents">>
        THEN previous[1] = [matrix |-> matrix, labels |-> labels]
        ELSE previous[1] = [matches |-> matches, global_similarities |-> global_similarities]

\* ------------------------------------------------------------- totality
\* the stages whose action has no guard but the stage itself
RunningStages ==
    {"flatten", "process", "tf", "idf", "vectorize", "matches", "global",
     "labels", "normalize", "tokenize", "doc_tf", "doc_idf", "vocabulary",
     "doc_vectorize", "matrix"}

\* C13: neither pipeline panics, each is at a stage that runs on or has
\* returned; every score given to a sort is a number, every index used for
\* a match is in range
C13_NeverPanics ==
    /\ pc # "panicked"
    /\ pc \in RunningStages \cup {"done"}
    /\ pc \in {"matches", "global", "done"} =>
          /\ \A k \in 1..Len(sentence_vectors) :
                index_in_range(sentence_vectors[k], documents)
          /\ \A i, j \in 1..Len(sentence_vectors) :
                i < j => PairSimilarity(i, j) # F32NaN
    /\ \A k \in 1..Len(matches) : matches[k].similarity \notin {F32NaN, F32Inf}
    /\ \A k \in 1..Len(global_similarities) :
          global_similarities[k].score \notin {F32NaN, F32Inf}
    /\ \A i, j \in 1..Len(matrix) : matrix[i][j] \notin {F32NaN, F32Inf}

\* a returned sentence analysis of three documents, one without sentences and
\* one holding a punctuation-only sentence, where both sorts had work to do
C13_Witness ==
    /\ Finished
    /\ Len(documents) = 3
    /\ \E d \in 1..3 : SentenceCount(d) = 0
    /\ \E k \in 1..Len(sentence_vectors) : sentence_vectors[k].vector = <<>>
    /\ Len(matches) >= 2
    /\ global_similarities # <<>>

\* ---------------------------------------------------- labels and shape
\* C14: N documents give N labels "doc0" .. "doc<N-1>" in input order and a
\* matrix of N rows of N cells; no document gives no label and no row
C14_LabelsAndShape ==
    Finished =>
        /\ Len(labels) = Len(docs)
        /\ \A k \in 1..Len(labels) :
              k <= 10 => labels[k] = <<"d", "o", "c", AsciiDigit[k]>>
        /\ Len(matrix) = Len(docs)
        /\ \A i \in 1..Len(matrix) : Len(matrix[i]) = Len(docs)
        /\ docs = <<>> => (labels = <<>> /\ matrix = <<>>)

\* a returned analysis of three documents labelled doc0, doc1, doc2
C14_Witness ==
    /\ Finished
    /\ Len(docs) = 3
    /\ labels = <<(<<"d", "o", "c", "0">>), (<<"d", "o", "c", "1">>), (<<"d", "o", "c", "2">>)>>
    /\ Len(matrix) = 3
    /\ Len(matrix[3]) = 3

\* ------------------------------------------------- upload threshold
\* x lies in 0.0..=1.0
InUnitInterval(x) == x # F32NaN /\ ~F32Lt(x, F32Zero) /\ ~F32Lt(F32One, x)

\* the core stages of a call made by the handler
CoreCalled ==
    handler # "idle" /\ (all_sentences # <<>> \/ pc \in {"flatten", "process", "tf", "idf",
                                                        "vectorize", "matches", "global", "done"})

\* every field was read and the range test was made
PastRangeTest ==
    \/ pc = "extract"
    \/ CoreCalled
    \/ pc = "responded" /\ multipart = <<>>
       /\ response[1] \notin
              {[error |-> "InvalidMultipart"], [error |-> "MissingFilename"],
               [error |-> "ReadError"]}
       /\ ("error" \in DOMAIN response[1] =>
              response[1].error \notin {"InvalidThreshold", "FileTooLarge",
                                        "TotalSizeTooLarge", "TooManyFiles"})

\* C15: the threshold the handler hands to the core lies in [0, 1]; a parsed
\* threshold outside 0.0..=1.0 fails the request with InvalidThresholdRange
\* before the core is called; without a threshold field 0.70 is used
C15_ThresholdInRange ==
    /\ CoreCalled => InUnitInterval(threshold)
    /\ (PastRangeTest /\ threshold_value # <<>> /\ ~InUnitInterval(threshold_value[1])) =>
          /\ response = <<[error |-> "InvalidThresholdRange", value |-> threshold_value[1]]>>
          /\ ~CoreCalled
    /\ (PastRangeTest /\ threshold_value = <<>> /\ (pc = "extract" \/ CoreCalled)) =>
          threshold = DEFAULT_THRESHOLD

\* ------------------------------------------------- request validation
Validated == pc = "validated"

RequestLen == Len(request.documents)

\* document i (1-based) of the request is blank / is longer than the maximum
Blank(i) == trim_is_empty(request.documents[i])

TooLong(i) == str_len(request.documents[i]) > MAX_DOCUMENT_LENGTH

\* no document before document i is blank or too long
FirstRejected(i) == \A k \in 1..(i - 1) : ~Blank(k) /\ ~TooLong(k)

\* C16: validate_request returns Ok exactly when the request has 2 to 100
\* documents, none blank after trimming and none longer than the maximum;
\* no document gives NoDocuments, one gives NotEnoughDocuments(1), more than
\* 100 give TooManyDocuments with the count, and a blank document (the first
\* one the loop rejects) gives EmptyDocument with its zero-based index.
C16_ValidateRequest ==
    Validated =>
        /\ response[1] = Ok <=>
              /\ RequestLen >= 2
              /\ RequestLen <= 100
              /\ \A i \in 1..RequestLen : ~Blank(i) /\ ~TooLong(i)
        /\ RequestLen = 0 => response[1] = [error |-> "NoDocuments"]
        /\ RequestLen = 1 => response[1] = [error |-> "NotEnoughDocuments", count |-> 1]
        /\ RequestLen = 101 => response[1] = [error |-> "TooManyDocuments", count |-> 101]
        /\ \A i \in 1..RequestLen :
              RequestLen \in 2..100 /\ Blank(i) /\ FirstRejected(i)
                  => response[1] = [error |-> "EmptyDocument", index |-> i - 1]

\* a request of 100 documents whose last one is blank has been validated
C16_Witness ==
    /\ Validated
    /\ RequestLen = 100
    /\ Blank(100)
    /\ response[1] = [error |-> "EmptyDocument", index |-> 99]

\* ---------------------------------------------- document length limit
\* C17: validate_request answers DocumentTooLong for a document exactly when
\* that document has more than 50,000 characters (the document being the
\* first one the loop rejects): a document of at most 50,000 characters is
\* never rejected for its length, whatever its characters are.
C17_TooLongIffCharacters ==
    Validated =>
        \A i \in 1..RequestLen :
            /\ response[1] = [error |-> "DocumentTooLong", index |-> i - 1,
                              max |-> MAX_DOCUMENT_LENGTH]
                  => chars_count(request.documents[i]) > 50000
            /\ (/\ RequestLen \in 2..100
                /\ FirstRejected(i)
                /\ ~Blank(i)
                /\ chars_count(request.documents[i]) > 50000)
                  => response[1] = [error |-> "DocumentTooLong", index |-> i - 1,
                                    max |-> MAX_DOCUMENT_LENGTH]

\* -------------------------------------------------------- normalization
Normalized == pc \in {"normalized", "normalized_twice"}

IsAsciiUpper(c) == \E i \in 1..26 : AsciiUpper[i] = c

\* C18: normalizing what normalize_text returned gives the same text again,
\* and the text returned has no ASCII punctuation, no ASCII capital, no
\* whitespace at either end and no two whitespace characters in a row.
C18_NormalizeIdempotent ==
    /\ pc = "normalized_twice" => response[2] = response[1]
    /\ Normalized =>
          LET out == response[1]
          IN /\ \A i \in 1..Len(out) :
                   ~is_ascii_punctuation(out[i]) /\ ~IsAsciiUpper(out[i])
             /\ out # <<>> => ~is_whitespace(out[1]) /\ ~is_whitespace(out[Len(out)])
             /\ \A i \in 1..(Len(out) - 1) :
                   ~(is_whitespace(out[i]) /\ is_whitespace(out[i + 1]))

\* a text with a capital, punctuation and a whitespace run has been
\* normalized twice and something of it is left
C18_Witness ==
    /\ pc = "normalized_twice"
    /\ \E i \in 1..Len(request) : IsAsciiUpper(request[i])
    /\ \E i \in 1..Len(request) : is_ascii_punctuation(request[i])
    /\ \E i \in 1..(Len(request) - 1) :
          is_whitespace(request[i]) /\ is_whitespace(request[i + 1])
    /\ response[1] # <<>>

\* ------------------------------------------------ non-ASCII characters
IsNonAscii(c) == c \in NonAscii

\* the characters of a text that normalization has no rule for: neither
\* ASCII punctuation nor whitespace; ASCII letters are compared in lower case
Kept(text) ==
    LET rest == SelectSeq(text, LAMBDA c : ~is_ascii_punctuation(c) /\ ~is_whitespace(c))
    IN [i \in 1..Len(rest) |->
           IF IsAsciiUpper(rest[i])
           THEN AsciiLower[CHOOSE k \in 1..26 : AsciiUpper[k] = rest[i]]
           ELSE rest[i]]

\* C19: the non-ASCII characters of the input are the non-ASCII characters of
\* the output, the same ones in the same order, none removed, replaced or
\* case-folded; only ASCII punctuation, ASCII letters and whitespace runs
\* are altered.
C19_NonAsciiUnchanged ==
    Normalized =>
        /\ SelectSeq(response[1], IsNonAscii) = SelectSeq(request, IsNonAscii)
        /\ Kept(response[1]) = Kept(request)

\* C19 (amended): the non-ASCII characters of the input that are not
\* whitespace are the non-ASCII characters of the output, the same ones in
\* the same order; a non-ASCII whitespace character is part of a whitespace
\* run and does not reach the output; nothing but ASCII punctuation, ASCII
\* letters and whitespace runs is altered.
C19_NonAsciiNonWhitespaceUnchanged ==
    Normalized =>
        /\ SelectSeq(response[1], IsNonAscii)
              = SelectSeq(request, LAMBDA c : IsNonAscii(c) /\ ~is_whitespace(c))
        /\ \A i \in 1..Len(response[1]) :
              is_whitespace(response[1][i]) => response[1][i] = " "
        /\ Kept(response[1]) = Kept(request)

\* a text with a capital e-acute and a no-break space has been normalized
C19_Witness ==
    /\ Normalized
    /\ \E i \in 1..Len(request) : request[i] = "U+00C9"
    /\ \E i \in 1..Len(request) : request[i] = "U+00A0"
    /\ \E i \in 1..Len(response[1]) : response[1][i] = "U+00C9"

\* ------------------------------------------------------ term frequency
\* x is the f32 nearest to the quotient c / n:
\* |m * 2^e - c / n| <= 2^(e - 1), multiplied by n * 2^(1 - e)
NearestToQuotient(x, c, n) ==
    LET d == 2 * x[1] * n - c * 2^(1 - x[2])
    IN x[1] > 0 /\ x[2] < 0 /\ d <= n /\ -d <= n

\* the orders in which the entries of a map can be visited
KeyOrders(map) ==
    LET n == Cardinality(DOMAIN map)
    IN {ks \in [1..n -> DOMAIN map] : \A i, j \in 1..n : i # j => ks[i] # ks[j]}

RECURSIVE SumOfCounts(_, _)
SumOfCounts(tokens, keys) ==
    IF keys = {} THEN 0
    ELSE LET t == CHOOSE k \in keys : TRUE
         IN Count(tokens, t) + SumOfCounts(tokens, keys \ {t})

\* C20: for a token sequence that is not empty the keys of the map returned
\* by compute_tf are the distinct tokens, the value of token t is the f32
\* quotient count(t) / len, the counts of the keys add up to len and the
\* values add up to 1 (within 0.001, in whatever order they are added); for
\* the empty sequence the map is empty.
C20_TermFrequencies ==
    pc = "tf_computed" =>
        LET tf == response[1]
            len == Len(request)
        IN IF request = <<>> THEN DOMAIN tf = {}
           ELSE /\ DOMAIN tf = {request[i] : i \in 1..len}
                /\ \A t \in DOMAIN tf : NearestToQuotient(tf[t], Count(request, t), len)
                /\ SumOfCounts(request, DOMAIN tf) = len
                /\ \A ks \in KeyOrders(tf) :
                      ApproxOne(F32Sum([i \in 1..Len(ks) |-> tf[ks[i]]]))

\* the term frequencies of a sequence with three distinct tokens, one of
\* them repeated, have been computed
C20_Witness ==
    /\ pc = "tf_computed"
    /\ Cardinality(DOMAIN response[1]) = 3
    /\ \E t \in DOMAIN response[1] : Count(request, t) > 1

\* the term frequencies of the empty sequence have been computed
C20_WitnessEmpty ==
    /\ pc = "tf_computed"
    /\ request = <<>>
    /\ response[1] = EmptyMap

\* ------------------------------------------- inverse document frequency
IdfComputed == pc \in {"vocabulary", "doc_vectorize", "matrix", "done"} /\ docs # <<>>

\* the number of members whose TF map has the term as a key
MembersWith(term) == Cardinality({k \in 1..Len(tfs) : term \in DOMAIN tfs[k]})

\* C21: the keys of the IDF map are the union of the members' TF keys; with
\* df the number of members whose TF map holds the term, 1 <= df <= N, terms
\* of equal df have equal IDF whatever their frequencies, a term of smaller
\* df has an IDF at least as large, every IDF is above 0, and a term of
\* every member has IDF exactly 1.
C21_IdfByPresence ==
    IdfComputed =>
        /\ DOMAIN idf = UNION {DOMAIN tfs[k] : k \in 1..Len(tfs)}
        /\ \A t \in DOMAIN idf :
              /\ MembersWith(t) >= 1
              /\ MembersWith(t) <= Len(tfs)
              /\ F32Lt(F32Zero, idf[t])
              /\ F32Le(F32One, idf[t])
              /\ MembersWith(t) = Len(tfs) => idf[t] = F32One
        /\ \A t, u \in DOMAIN idf :
              /\ MembersWith(t) = MembersWith(u) => idf[t] = idf[u]
              /\ MembersWith(t) < MembersWith(u) => F32Le(idf[u], idf[t])

\* an IDF map over three members with a term of one member, a term of all
\* three, and a term whose frequency differs between members
C21_Witness ==
    /\ IdfComputed
    /\ Len(tfs) = 3
    /\ \E t, u \in DOMAIN idf :
          /\ MembersWith(t) = 1
          /\ MembersWith(u) = 3
          /\ \E k, l \in 1..3 : tfs[k][u] # tfs[l][u]

\* ---------------------------------------------------- dense similarity
\* twice the value of a component of the pool, an integer of either sign
TwiceOf(x) == IF x[1] = 0 THEN 0 ELSE x[1] \div (2^(-(x[2] + 1)))

\* four times the dot product of two vectors of equal length, exactly
RECURSIVE ExactDot(_, _)
ExactDot(a, b) ==
    IF a = <<>> THEN 0
    ELSE TwiceOf(a[1]) * TwiceOf(b[1]) + ExactDot(Tail(a), Tail(b))

\* x has the sign of dot, and |x| = m * 2^e is the quotient
\* |dot| / sqrt(aa * bb) to about one part in 100: with q the upper 8 bits
\* of m, q * 2^(e + 16) <= |x| < (q + 1) * 2^(e + 16), and the squares of
\* (q - 1) * 2^(e + 16) and (q + 2) * 2^(e + 16) are compared with the square
\* of the quotient
NearCosine(x, dot, aa, bb) ==
    IF dot = 0 THEN x = F32Zero
    ELSE /\ F32IsNegative(x) <=> dot < 0
         /\ F32Abs(x)[1] >= Two23
         /\ x[2] <= -16
         /\ LET q == F32Abs(x)[1] \div (2^16)
                scale == 4^(-(x[2] + 16))
            IN /\ (q - 1) * (q - 1) * aa * bb <= dot * dot * scale
               /\ (q + 2) * (q + 2) * aa * bb >= dot * dot * scale

\* C22: cosine_similarity returns 0.0 (no NaN, no failure) when the vectors
\* differ in length, when one of them is empty and when one of them has
\* magnitude 0; in every other case it returns dot(A, B) / (|A| * |B|).
C22_CosineZeroCases ==
    pc = "cosine_computed" =>
        LET a == request[1]
            b == request[2]
        IN /\ response[1] \notin {F32NaN, F32Inf, F32NegInf}
           /\ IF Len(a) # Len(b) \/ a = <<>> \/ b = <<>>
              THEN response[1] = F32Zero
              ELSE IF ExactDot(a, a) = 0 \/ ExactDot(b, b) = 0
              THEN response[1] = F32Zero
              ELSE NearCosine(response[1], ExactDot(a, b), ExactDot(a, a), ExactDot(b, b))

\* a vector of magnitude 0 has been compared with one of the same length
\* that has a negative component
C22_Witness ==
    /\ pc = "cosine_computed"
    /\ Len(request[1]) = 2
    /\ Len(request[2]) = 2
    /\ ExactDot(request[1], request[1]) = 0
    /\ ExactDot(request[2], request[2]) > 0
    /\ \E x \in 1..2 : F32IsNegative(request[2][x])
    /\ response[1] = F32Zero

\* ------------------------------------------------- what a match reports
\* the named document has a sentence at the 0-based position, and it is text
SentenceAt(name, position, text) ==
    /\ \E d \in 1..Len(documents) : documents[d].filename = name
    /\ position >= 0
    /\ position < SentenceCount(DocIndexOf(name))
    /\ documents[DocIndexOf(name)].sentences[position + 1] = text

\* C23: every match names, on each side, the document the sentence belongs
\* to, the sentence's zero-based position in that document's sentence list
\* and the original text found at that position; the two sides are the two
\* sentences whose similarity the match carries.
C23_MatchReportsOwnSentences ==
    Finished =>
        \A k \in 1..Len(matches) :
            LET m == matches[k]
            IN /\ SentenceAt(m.source_doc, m.source_sentence_index, m.source_sentence)
               /\ SentenceAt(m.target_doc, m.target_sentence_index, m.target_sentence)
               /\ \E p \in CrossPairs :
                     /\ Reports(m, p[1], p[2])
                     /\ all_sentences[p[1]][3] = m.source_sentence
                     /\ all_sentences[p[2]][3] = m.target_sentence
                     /\ m.similarity = PairSimilarity(p[1], p[2])

\* a match whose source is not the first sentence of its document and whose
\* two texts differ
C23_Witness ==
    /\ Finished
    /\ \E k \in 1..Len(matches) :
          /\ matches[k].source_sentence_index >= 1
          /\ matches[k].source_sentence # matches[k].target_sentence
          /\ F32Lt(F32Zero, matches[k].similarity)

\* ------------------------------------------------ order of the stages
\* a vectorization task has been started, or the stage is over
VectorizationBegun ==
    \/ /\ pc \in {"vectorize", "doc_vectorize"}
       /\ \E k \in 1..Len(tasks) : tasks[k] # "pending"
    \/ pc \in {"matrix", "matches", "global"}
    \/ pc = "done" /\ (docs # <<>> \/ all_sentences # <<>>)

\* every item's TF map has been collected and no task is under way
TfsProduced ==
    /\ tasks = <<>>
    /\ pc = "doc_idf" => Len(tfs) = Len(docs) /\ Len(docs) > 0
    /\ pc = "idf" => Len(sentence_tfs) = Len(all_sentences) /\ Len(all_sentences) > 0

\* C24: in a run compute_idf is called once, and only when every item's TF
\* map has been produced; a vectorization task starts only after that call
\* (for documents, only with the sorted vocabulary built from the IDF map);
\* once a vectorization task has started, the IDF map and the vocabulary
\* are no longer written.
C24_IdfOnceBeforeVectorizing ==
    /\ [](/\ idf_calls <= 1
          /\ VectorizationBegun =>
                /\ idf_calls = 1
                /\ docs # <<>> => vocabulary = sorted_vocabulary(DOMAIN idf))
    /\ [][/\ idf_calls' # idf_calls =>
                /\ pc \in {"doc_idf", "idf"}
                /\ TfsProduced
                /\ ~VectorizationBegun
          /\ (idf' # idf \/ global_idf' # global_idf) => idf_calls' = idf_calls + 1
          /\ VectorizationBegun =>
                /\ idf' = idf
                /\ global_idf' = global_idf
                /\ vocabulary' = vocabulary
                /\ idf_calls' = idf_calls]_vars

\* the vectorization tasks of three sentences are under way, the last one
\* finished before the first one started, after the one call of compute_idf
C24_Witness ==
    /\ pc = "vectorize"
    /\ Len(tasks) = 3
    /\ tasks[1] = "pending"
    /\ tasks[3] = "done"
    /\ idf_calls = 1
    /\ global_idf # EmptyMap

\* ------------------------------------------------ order of the results
TokensOf(text) == tokenize(normalize_text(text))

\* C25: whatever the order in which the tasks ran, what each parallel stage
\* collected is in input order: the k-th normalized text, token list, TF
\* map, vector and matrix row are those of document k, and the k-th
\* processed sentence, TF map and sentence vector carry the document index
\* and sentence index of the k-th flattened sentence, the flattened list
\* being ordered by document and then by position.
C25_ResultsInInputOrder ==
    /\ Len(normalized) \in {0, Len(docs)}
    /\ Len(tokenized) \in {0, Len(docs)}
    /\ Len(tfs) \in {0, Len(docs)}
    /\ Len(vectors) \in {0, Len(docs)}
    /\ Len(matrix) \in {0, Len(docs)}
    /\ \A k \in 1..Len(normalized) : normalized[k] = normalize_text(docs[k])
    /\ \A k \in 1..Len(tokenized) : tokenized[k] = TokensOf(docs[k])
    /\ \A k \in 1..Len(tfs) : tfs[k] = compute_tf(TokensOf(docs[k]))
    /\ \A k \in 1..Len(vectors) :
          vectors[k] = vectorize(compute_tf(TokensOf(docs[k])), idf, vocabulary)
    /\ \A k \in 1..Len(matrix) :
          matrix[k] = [j \in 1..Len(docs) |-> matrix_cell(vectors, k, j)]
    /\ \A k \in 1..Len(all_sentences) :
          /\ all_sentences[k][3]
                = documents[all_sentences[k][1] + 1].sentences[all_sentences[k][2] + 1]
          /\ \A l \in (k + 1)..Len(all_sentences) :
                \/ all_sentences[k][1] < all_sentences[l][1]
                \/ /\ all_sentences[k][1] = all_sentences[l][1]
                   /\ all_sentences[k][2] < all_sentences[l][2]
    /\ Len(processed_sentences) \in {0, Len(all_sentences)}
    /\ Len(sentence_tfs) \in {0, Len(all_sentences)}
    /\ Len(sentence_vectors) \in {0, Len(all_sentences)}
    /\ \A k \in 1..Len(processed_sentences) :
          processed_sentences[k]
              = <<all_sentences[k][1], all_sentences[k][2], all_sentences[k][3],
                  TokensOf(all_sentences[k][3])>>
    /\ \A k \in 1..Len(sentence_tfs) :
          sentence_tfs[k]
              = <<all_sentences[k][1], all_sentences[k][2], all_sentences[k][3],
                  compute_tf(TokensOf(all_sentences[k][3]))>>
    /\ \A k \in 1..Len(sentence_vectors) :
          /\ sentence_vectors[k].doc_index = all_sentences[k][1]
          /\ sentence_vectors[k].sentence_index = all_sentences[k][2]
          /\ {sentence_vectors[k].vector[i][1] :
                 i \in 1..Len(sentence_vectors[k].vector)}
                = {TokensOf(all_sentences[k][3])[i] :
                      i \in 1..Len(TokensOf(all_sentences[k][3]))}

\* the matrix rows of three documents, the first unlike the third, are being
\* computed and the third row is finished before the first one is started
C25_Witness ==
    /\ pc = "matrix"
    /\ Len(tasks) = 3
    /\ tasks[1] = "pending"
    /\ tasks[3] = "done"
    /\ vectors[1] # vectors[3]
    /\ normalized[1] # normalized[3]

\* ------------------------------------------------ one corpus of sentences
GlobalIdfComputed ==
    pc \in {"vectorize", "matches", "global", "done"} /\ all_sentences # <<>>

\* the sentences of all documents: <<d, k>> is sentence k of document d
AllSentencePositions ==
    {dk \in (1..Len(documents)) \X (1..MaxSentences + 1) : dk[2] <= SentenceCount(dk[1])}

TokenSetOf(dk) ==
    LET tokens == TokensOf(documents[dk[1]].sentences[dk[2]])
    IN {tokens[i] : i \in 1..Len(tokens)}

\* the number of sentences, of whatever document, that hold the term
SentencesWith(term) == Cardinality({dk \in AllSentencePositions : term \in TokenSetOf(dk)})

\* C26: the sentence analysis has one IDF map; its N is the number of
\* sentences of all documents together (a sentence without tokens counts),
\* the df of a term is the number of sentences of any document that hold it,
\* and the weight of every term of every sentence is its TF times that map's
\* value.
C26_OneIdfOverAllSentences ==
    GlobalIdfComputed =>
        LET n == Cardinality(AllSentencePositions)
        IN /\ n = Len(all_sentences)
           /\ DOMAIN global_idf = UNION {TokenSetOf(dk) : dk \in AllSentencePositions}
           /\ \A term \in DOMAIN global_idf :
                 global_idf[term]
                     = F32Add(F32Ln(F32Div(F32FromInt(n + 1),
                                           F32FromInt(SentencesWith(term) + 1))),
                              F32One)
           /\ \A k \in 1..Len(sentence_vectors) :
                 \A i \in 1..Len(sentence_vectors[k].vector) :
                     LET entry == sentence_vectors[k].vector[i]
                         tf == compute_tf(TokensOf(all_sentences[k][3]))
                     IN /\ entry[1] \in DOMAIN tf
                        /\ entry[2] = F32Mul(tf[entry[1]], global_idf[entry[1]])

\* a finished analysis of three sentences in two documents, one sentence
\* without tokens and one term held by sentences of both documents
C26_Witness ==
    /\ Finished
    /\ Len(documents) = 2
    /\ Len(all_sentences) = 3
    /\ \E dk \in AllSentencePositions : TokenSetOf(dk) = {}
    /\ \E term \in DOMAIN global_idf :
          \E dk, el \in AllSentencePositions :
              /\ dk[1] # el[1]
              /\ term \in TokenSetOf(dk)
              /\ term \in TokenSetOf(el)

\* ------------------------------------------------- one direction per pair
\* the two sentences a match reports, as an unordered pair of
\* <<document, sentence index>>
EndsOf(m) ==
    {<<DocIndexOf(m.source_doc), m.source_sentence_index>>,
     <<DocIndexOf(m.target_doc), m.target_sentence_index>>}

\* C27: no two entries of the match list report the same unordered pair of
\* sentences (in either direction), and the source sentence of every match
\* belongs to a document strictly earlier in the input than the document of
\* the target sentence.
C27_OnceAndSourceEarlier ==
    pc \in {"global", "done"} =>
        /\ \A k, l \in 1..Len(matches) : k # l => EndsOf(matches[k]) # EndsOf(matches[l])
        /\ \A k \in 1..Len(matches) :
              DocIndexOf(matches[k].source_doc) < DocIndexOf(matches[k].target_doc)

\* three documents with the same one sentence each: three matches, one of
\* them from the second document to the third
C27_Witness ==
    /\ Finished
    /\ Len(documents) = 3
    /\ Len(matches) = 3
    /\ \E k \in 1..Len(matches) :
          /\ DocIndexOf(matches[k].source_doc) = 2
          /\ DocIndexOf(matches[k].target_doc) = 3
          /\ matches[k].source_sentence = matches[k].target_sentence

\* ------------------------------------------------- raising the threshold
\* a match of the later call and a match of the earlier call report the same
\* two sentences
SamePair(m, n) ==
    /\ m.source_doc = n.source_doc
    /\ m.source_sentence_index = n.source_sentence_index
    /\ m.target_doc = n.target_doc
    /\ m.target_sentence_index = n.target_sentence_index

\* C28: for the same documents and thresholds t1 <= t2, every match returned
\* for t2 is among the matches returned for t1, with the same similarity:
\* raising the threshold removes matches and changes no score.
C28_RaisingThresholdOnlyRemoves ==
    (Finished /\ previous # <<>>) =>
        \A k \in 1..Len(matches) :
            \E l \in 1..Len(previous[1].matches) :
                /\ SamePair(matches[k], previous[1].matches[l])
                /\ matches[k].similarity = previous[1].matches[l].similarity

\* ------------------------------------------------------ order among ties
\* the flattened position of sentence `index` of the document called `name`
FlatPosition(name, index) ==
    CHOOSE p \in 1..Len(sentence_vectors) :
        /\ sentence_vectors[p].doc_index + 1 = DocIndexOf(name)
        /\ sentence_vectors[p].sentence_index = index

\* <<i, j>> of the enumeration step that produced match m
EnumerationKey(m) ==
    <<FlatPosition(m.source_doc, m.source_sentence_index),
      FlatPosition(m.target_doc, m.target_sentence_index)>>

LexLess(x, y) == x[1] < y[1] \/ (x[1] = y[1] /\ x[2] < y[2])

\* C29: of two matches with equal similarity the one enumerated first (lower
\* flattened source index i, then lower target index j) comes first in the
\* returned list, and of two global records with equal score the one whose
\* document pair (a, b) is lexicographically lower comes first: the sort
\* changes the order of entries with different scores only.
C29_TiesKeepEnumerationOrder ==
    /\ pc \in {"global", "done"} =>
          \A k, l \in 1..Len(matches) :
              (k < l /\ matches[k].similarity = matches[l].similarity)
              => LexLess(EnumerationKey(matches[k]), EnumerationKey(matches[l]))
    /\ Finished =>
          \A k, l \in 1..Len(global_similarities) :
              (k < l /\ global_similarities[k].score = global_similarities[l].score)
              => LexLess(<<DocIndexOf(global_similarities[k].doc_a),
                           DocIndexOf(global_similarities[k].doc_b)>>,
                         <<DocIndexOf(global_similarities[l].doc_a),
                           DocIndexOf(global_similarities[l].doc_b)>>)

\* both lists were reordered by the sort and both hold two entries of equal
\* score
C29_Witness ==
    /\ Finished
    /\ matches # matches_from(sentence_vectors, documents, threshold, 1)
    /\ global_similarities
           # global_sims_from(sentence_vectors, documents, doc_pairs(Len(documents)))
    /\ \E k, l \in 1..Len(matches) :
          k < l /\ matches[k].similarity = matches[l].similarity
    /\ \E k, l \in 1..Len(global_similarities) :
          k < l /\ global_similarities[k].score = global_similarities[l].score

\* ---------------------------------------------------------- upload limits
IsFile(part) == part.name \notin {"threshold", "unreadable"}

FilePositions == {k \in 1..Len(request) : IsFile(request[k])}

\* the position of the sixth file field of a request that has one
SixthFile ==
    CHOOSE k \in FilePositions : Cardinality({j \in FilePositions : j <= k}) = MAX_FILES + 1

\* the bytes of the file fields at positions 1..k
RECURSIVE SizeUpTo(_)
SizeUpTo(k) ==
    IF k = 0 THEN 0
    ELSE SizeUpTo(k - 1) + (IF IsFile(request[k]) THEN request[k].data.len ELSE 0)

\* the fields the loop has finished with (header and body)
Consumed == Len(request) - Len(multipart) - Len(field)

Rejected ==
    /\ handler = "returned"
    /\ response # <<>>
    /\ "error" \in DOMAIN response[1]

\* analyze_sentence_similarity has been called
CoreReached ==
    \/ pc \in {"flatten", "process", "tf", "idf", "vectorize", "matches", "global", "done"}
    \/ handler = "returned" /\ ~Rejected

\* a test of the loop other than the total size and the file count rejects
\* the field
OtherTestFails(part) ==
    \/ part.name = "unreadable"
    \/ "read_error" \in DOMAIN part
    \/ part.name = "threshold" /\ parse_f32(trim(part.text)) = <<>>
    \/ IsFile(part) /\ (part.file_name = <<>> \/ part.data.len > MAX_FILE_SIZE)

\* the core is called only for 2..5 files, each of at most 10 MiB, with every
\* running total at most 50 MiB
CoreOnlyWithinLimits ==
    CoreReached =>
        /\ Cardinality(FilePositions) \in MIN_FILES..MAX_FILES
        /\ \A k \in FilePositions :
              /\ request[k].data.len <= MAX_FILE_SIZE
              /\ SizeUpTo(k) <= MAX_TOTAL_SIZE

\* a field of more than 10 MiB that has been read is the last field read, and
\* the request is rejected (with FileTooLarge if the field has a file name)
OversizedRejectedWhenRead ==
    \A k \in 1..Consumed :
        (IsFile(request[k]) /\ request[k].data.len > MAX_FILE_SIZE)
        => /\ k = Consumed
           /\ Rejected
           /\ request[k].file_name # <<>> => response[1].error = "FileTooLarge"

\* the error of a request whose sixth file passes the tests before it
SixthFileError ==
    IF SizeUpTo(SixthFile) > MAX_TOTAL_SIZE THEN "TotalSizeTooLarge" ELSE "TooManyFiles"

\* C30: the core is reached only for 2..5 files within the size limits; a
\* request with a sixth file never reaches the core and, once answered, was
\* rejected: when the loop gets as far as the sixth file and the file passes
\* the tests before the total size, the error is TotalSizeTooLarge if the
\* sixth file pushes the total over 50 MiB and TooManyFiles otherwise; an
\* oversized file is rejected when it is read, before later fields.
C30_UploadLimits ==
    /\ CoreOnlyWithinLimits
    /\ (handler = "returned" /\ Cardinality(FilePositions) > MAX_FILES)
       => /\ Rejected
          /\ (\A k \in 1..SixthFile : ~OtherTestFails(request[k]))
             => response[1].error = SixthFileError
    /\ OversizedRejectedWhenRead

\* five files of 10 MiB were accepted (50 MiB in total) and the sixth file was
\* rejected for the total size
C30_Witness ==
    /\ Rejected
    /\ Cardinality(FilePositions) = MAX_FILES + 1
    /\ Len(files) = MAX_FILES
    /\ \A k \in 1..Len(files) : files[k][2].len = MAX_FILE_SIZE
    /\ total_size > MAX_TOTAL_SIZE
    /\ response[1].error = "TotalSizeTooLarge"

====
